---------------------------- MODULE Spec2Model ----------------------------
(***************************************************************************)
(* TS-MIPS: a two-pass MIPS assembler writing into a byte-addressable      *)
(* memory component, and the wires and components of the datapath.         *)
(*                                                                         *)
(* The specifications share the variables below:                           *)
(*   Spec      one assemble(source, address) call on the chip's memory     *)
(*   SpecMem   the Memory component under write/read/addListener/clear     *)
(*   SpecWord  Memory.write, readByte and readWord on whole words          *)
(*   SpecEnc   the encoder and the InstructionSplitter on one instruction  *)
(*   SpecAlias register aliases through the encoder                        *)
(*   SpecTok   Tokenizer.parse on one instruction text                     *)
(*   SpecSeg   validate and resolveSymbols on sources with segments        *)
(*   SpecImm   the encoder on load/store and shift instructions            *)
(*   SpecExp   expand() on sge and sgt                                     *)
(*   SpecDir   AssemblerDirective: construct, offset, execute              *)
(*   SpecReg   resolveSymbols and the encoder on register spellings        *)
(*   SpecWire  Wire.setValue on wires of every size                        *)
(*   SpecTick  Component.doSingleClockCycle on small component graphs      *)
(*   SpecChip  the branch path of SCMIPSChip, constructed and ticked       *)
(*   SpecCalls two assemble() calls on one Assembler                       *)
(***************************************************************************)
EXTENDS Integers, Sequences, FiniteSets, TLC

VARIABLES
    MEMORY_SIZE,   \* Memory.MEMORY_SIZE, set by the constructor
    memory,        \* Memory.memory: the bytes that are not 0, by address
    listeners,     \* Memory.listeners: Map<address, Function[]>
    calls,         \* the listener invocations made by the last Memory call
    thrown,        \* what the last Memory call threw ("none" if it returned)
    result,        \* what the last Memory call returned
    lastOp,        \* the last Memory call and its arguments
    instructions,  \* Assembler.instructions (normalized source lines)
    symbolTable,   \* Assembler.symbolTable
    segment,       \* resolveSymbols' local `segment`
    layout,        \* Stage 1's locationCounter at each real instruction, in order
    resolved,      \* resolveSymbols' resolvedInstructions / return value
    machineCode,   \* the Uint32Array returned by assembleInstructions
    address,       \* the address argument of assemble()
    ret,           \* the value assemble() returned
    error,         \* the error assemble() threw ("none" while it has not)
    pc,            \* the position inside assemble()
    outputs,       \* InstructionSplitter.outputs
    instruction,   \* the argument of Tokenizer.parse, character by character
    ast,           \* what Tokenizer.parse returned or threw
    directive,     \* an AssemblerDirective: directive, args, locationCounter
    counter,       \* locationCounter[segment] of the pass that built the directive
    forwardOffset, \* what directive.calculateForwardOffset() returned
    instances,     \* Component._instances, in registration order
    wireSize,      \* Wire.size of every wire
    wireValue,     \* Wire.value of every wire
    registerValue, \* Register.value of every instance that is a Register
    hasChanged,    \* doSingleClockCycle's local `hasChanged`
    iteration,     \* doSingleClockCycle's local `i`
    tickState      \* where doSingleClockCycle is: idle, running, returned or threw

memVars == <<MEMORY_SIZE, memory, listeners, calls, thrown, result, lastOp>>
asmVars == <<instructions, symbolTable, segment, layout, resolved, machineCode, address, ret, error, pc>>
tokVars == <<instruction, ast>>
dirVars == <<directive, counter, forwardOffset>>
hwVars == <<instances, wireSize, wireValue, registerValue, hasChanged, iteration, tickState>>
vars == <<MEMORY_SIZE, memory, listeners, calls, thrown, result, lastOp, instructions,
          symbolTable, segment, layout, resolved, machineCode, address, ret, error, pc, outputs,
          instruction, ast, directive, counter, forwardOffset,
          instances, wireSize, wireValue, registerValue, hasChanged, iteration, tickState>>

---------------------------------------------------------------------------
(* Bounds of the model *)

\* SpecMem: the size of the memory under test
MemSize == 2
\* SpecMem: the longest data array given to write()
MaxData == 2
\* SpecMem: the most listeners registered at one time
MaxListeners == 2
\* Spec: the most normalized lines in a source
MaxLines == 4
\* the size in bytes of the Memory of SpecWord
WordMemSize == 4
\* SpecTok: the most operands after the operation of an instruction
MaxOperands == 2
\* SpecDir: the largest location counter a directive is built at
MaxCounter == 8
\* SpecDir: the largest argument of .align and .space
MaxAlign == 4
\* SpecCalls: the most lines of a source
MaxCallLines == 2
\* SpecCalls: assemble() is called again while no label lies beyond this address
MaxStale == 8
\* SpecTick: the most components of a component graph
MaxComponents == 3
\* SpecTick: the most iterations of doSingleClockCycle's loop the model follows
MaxIterations == 6

---------------------------------------------------------------------------
(* 32-bit integers of JavaScript's bitwise operators, kept as two 16-bit    *)
(* halves (hi = bits 31..16, lo = bits 15..0)                              *)

W(hi, lo) == [hi |-> hi, lo |-> lo]

\* ToInt32 / ToUint32 of an integer: its low 32 bits
ToWord(x) == W((x \div 65536) % 65536, x % 65536)

\* a | b on 16-bit halves
RECURSIVE Or16(_, _)
Or16(a, b) ==
    IF a = 0 THEN b
    ELSE IF b = 0 THEN a
    ELSE IF a % 32 = 0 /\ b % 32 = 0
         THEN 32 * Or16(a \div 32, b \div 32)
    ELSE 2 * Or16(a \div 2, b \div 2) + (IF a % 2 = 1 \/ b % 2 = 1 THEN 1 ELSE 0)

\* a | b
OrW(a, b) == W(Or16(a.hi, b.hi), Or16(a.lo, b.lo))

\* w << k, for 0 <= k < 32
ShlW(w, k) ==
    IF k >= 16
    THEN W((w.lo * (2 ^ (k - 16))) % 65536, 0)
    ELSE W((w.hi * (2 ^ k) + (w.lo * (2 ^ k)) \div 65536) % 65536, (w.lo * (2 ^ k)) % 65536)

\* x & 0xffff
And16(x) == W(0, x % 65536)

\* x & 0x3ffffff
And26(x) == W((x \div 65536) % 1024, x % 65536)

---------------------------------------------------------------------------
(* language/MIPS: registers *)

REGISTER_UNALIAS ==
    ("$zero" :> "$0") @@ ("$at" :> "$1") @@ ("$v0" :> "$2") @@ ("$v1" :> "$3") @@
    ("$a0" :> "$4") @@ ("$a1" :> "$5") @@ ("$a2" :> "$6") @@ ("$a3" :> "$7") @@
    ("$t0" :> "$8") @@ ("$t1" :> "$9") @@ ("$t2" :> "$10") @@ ("$t3" :> "$11") @@
    ("$t4" :> "$12") @@ ("$t5" :> "$13") @@ ("$t6" :> "$14") @@ ("$t7" :> "$15") @@
    ("$s0" :> "$16") @@ ("$s1" :> "$17") @@ ("$s2" :> "$18") @@ ("$s3" :> "$19") @@
    ("$s4" :> "$20") @@ ("$s5" :> "$21") @@ ("$s6" :> "$22") @@ ("$s7" :> "$23") @@
    ("$t8" :> "$24") @@ ("$t9" :> "$25") @@ ("$k0" :> "$26") @@ ("$k1" :> "$27") @@
    ("$gp" :> "$28") @@ ("$sp" :> "$29") @@ ("$fp" :> "$30") @@ ("$ra" :> "$31")

\* MIPS_REGISTERS[r].registerNumber
MIPS_REGISTERS ==
    ("$0" :> 0) @@ ("$1" :> 1) @@ ("$2" :> 2) @@ ("$3" :> 3) @@
    ("$4" :> 4) @@ ("$5" :> 5) @@ ("$6" :> 6) @@ ("$7" :> 7) @@
    ("$8" :> 8) @@ ("$9" :> 9) @@ ("$10" :> 10) @@ ("$11" :> 11) @@
    ("$12" :> 12) @@ ("$13" :> 13) @@ ("$14" :> 14) @@ ("$15" :> 15) @@
    ("$16" :> 16) @@ ("$17" :> 17) @@ ("$18" :> 18) @@ ("$19" :> 19) @@
    ("$20" :> 20) @@ ("$21" :> 21) @@ ("$22" :> 22) @@ ("$23" :> 23) @@
    ("$24" :> 24) @@ ("$25" :> 25) @@ ("$26" :> 26) @@ ("$27" :> 27) @@
    ("$28" :> 28) @@ ("$29" :> 29) @@ ("$30" :> 30) @@ ("$31" :> 31)

\* MIPS_REGISTERS[REGISTER_UNALIAS[register]], undefined when a lookup misses
UnaliasedNumber(register) ==
    IF register \in DOMAIN REGISTER_UNALIAS
       /\ REGISTER_UNALIAS[register] \in DOMAIN MIPS_REGISTERS
    THEN <<MIPS_REGISTERS[REGISTER_UNALIAS[register]]>>
    ELSE <<>>

isValidRegister(register) ==
    \/ register \in DOMAIN MIPS_REGISTERS
    \/ UnaliasedNumber(register) /= <<>>

\* a lookup that knows the raw names only
registerLookupRawOnly(regKey) ==
    IF regKey \in DOMAIN MIPS_REGISTERS THEN MIPS_REGISTERS[regKey] ELSE 0

\* registerLookup(regKey).registerNumber, for a valid register
registerLookup(regKey) ==
    IF regKey \in DOMAIN MIPS_REGISTERS
    THEN MIPS_REGISTERS[regKey]
    ELSE UnaliasedNumber(regKey)[1]

unaliasRegister(register) ==
    IF register \in DOMAIN REGISTER_UNALIAS THEN REGISTER_UNALIAS[register] ELSE register

---------------------------------------------------------------------------
(* Source lines.  A normalized line is a label definition `name:` or a     *)
(* statement `op arg arg ...`; line.split(' ') gives op and args.  A token *)
(* is a register ($...), a decimal number, a name, or offset(base).        *)

Reg(s) == [t |-> "reg", s |-> s, n |-> 0, b |-> ""]
Num(n) == [t |-> "num", s |-> "", n |-> n, b |-> ""]
Lab(s) == [t |-> "lab", s |-> s, n |-> 0, b |-> ""]
MemNum(n, b) == [t |-> "mem", s |-> "", n |-> n, b |-> b]
MemLab(s, b) == [t |-> "mem", s |-> s, n |-> 0, b |-> b]

\* a double-quoted string argument: the characters between the quotes
Str(chars) == [t |-> "str", s |-> "", n |-> 0, b |-> "", chars |-> chars]

LabelLine(name) == [kind |-> "label", op |-> name, args |-> <<>>]
Stmt(op, args) == [kind |-> "stmt", op |-> op, args |-> args]

\* the token a template literal prints for a missing argument
Undefined == Lab("undefined")
Arg(args, i) == IF i <= Len(args) THEN args[i] ELSE Undefined

\* parseInt(token) where the result meets a bitwise operator or a typed
\* array: NaN (no leading digits) becomes 0
parseInt32(tok) == IF tok.t = "num" THEN tok.n ELSE 0

isValidLabel(line) == line.kind = "label"

---------------------------------------------------------------------------
(* language/MIPS: the instruction tables *)

opCode ==
    ("add" :> 0) @@ ("addi" :> 8) @@ ("addiu" :> 9) @@ ("addu" :> 0) @@ ("and" :> 0) @@
    ("andi" :> 12) @@ ("beq" :> 4) @@ ("bgez" :> 1) @@ ("bgezal" :> 1) @@ ("bgtz" :> 7) @@
    ("blez" :> 6) @@ ("bltz" :> 1) @@ ("bltzal" :> 1) @@ ("bne" :> 5) @@ ("j" :> 2) @@
    ("jal" :> 3) @@ ("jalr" :> 0) @@ ("jr" :> 0) @@ ("lb" :> 32) @@ ("lbu" :> 36) @@
    ("lh" :> 33) @@ ("lhu" :> 37) @@ ("ll" :> 48) @@ ("lui" :> 15) @@ ("lw" :> 35) @@
    ("nop" :> 0) @@ ("nor" :> 0) @@ ("or" :> 0) @@ ("ori" :> 13) @@ ("sb" :> 40) @@
    ("sc" :> 56) @@ ("sh" :> 41) @@ ("sll" :> 0) @@ ("sllv" :> 0) @@ ("slt" :> 0) @@
    ("slti" :> 10) @@ ("sltiu" :> 11) @@ ("sltu" :> 0) @@ ("sra" :> 0) @@ ("srav" :> 0) @@
    ("srl" :> 0) @@ ("srlv" :> 0) @@ ("sub" :> 0) @@ ("subu" :> 0) @@ ("sw" :> 43) @@
    ("xor" :> 0)

funct ==
    ("add" :> 32) @@ ("addu" :> 33) @@ ("and" :> 36) @@ ("jalr" :> 9) @@ ("jr" :> 8) @@
    ("nor" :> 39) @@ ("or" :> 37) @@ ("sll" :> 0) @@ ("sllv" :> 4) @@ ("slt" :> 42) @@
    ("sltu" :> 43) @@ ("sra" :> 3) @@ ("srav" :> 7) @@ ("srl" :> 2) @@ ("srlv" :> 6) @@
    ("sub" :> 34) @@ ("subu" :> 35) @@ ("xor" :> 38)

\* the argument count validate(args) of a core instruction accepts
coreArity ==
    ("add" :> 3) @@ ("addi" :> 3) @@ ("addiu" :> 3) @@ ("addu" :> 3) @@ ("and" :> 3) @@
    ("andi" :> 3) @@ ("beq" :> 3) @@ ("bgez" :> 2) @@ ("bgezal" :> 2) @@ ("bgtz" :> 2) @@
    ("blez" :> 2) @@ ("bltz" :> 2) @@ ("bltzal" :> 2) @@ ("bne" :> 3) @@ ("j" :> 1) @@
    ("jal" :> 1) @@ ("jalr" :> 2) @@ ("jr" :> 1) @@ ("lb" :> 3) @@ ("lbu" :> 3) @@
    ("lh" :> 3) @@ ("lhu" :> 3) @@ ("ll" :> 2) @@ ("lui" :> 2) @@ ("lw" :> 2) @@
    ("nop" :> 0) @@ ("nor" :> 3) @@ ("or" :> 3) @@ ("ori" :> 3) @@ ("sb" :> 3) @@
    ("sc" :> 2) @@ ("sh" :> 3) @@ ("sll" :> 3) @@ ("sllv" :> 3) @@ ("slt" :> 3) @@
    ("slti" :> 3) @@ ("sltiu" :> 3) @@ ("sltu" :> 3) @@ ("sra" :> 3) @@ ("srav" :> 3) @@
    ("srl" :> 3) @@ ("srlv" :> 3) @@ ("sub" :> 3) @@ ("subu" :> 3) @@ ("sw" :> 2) @@
    ("xor" :> 3)

\* the mnemonics MIPS_CORE_INSTRUCTIONS has an entry for
MIPS_CORE_INSTRUCTIONS == DOMAIN opCode

MIPS_PSEUDO_INSTRUCTIONS ==
    {"abs", "blt", "bgt", "ble", "neg", "negu", "not", "bge", "li", "la", "move", "sge", "sgt"}

isMIPSPseudoInstruction(op) == op \in MIPS_PSEUDO_INSTRUCTIONS

\* the argument count of a pseudo-instruction (the operands of its expansion)
pseudoArity ==
    ("abs" :> 2) @@ ("blt" :> 3) @@ ("bgt" :> 3) @@ ("ble" :> 3) @@ ("neg" :> 2) @@
    ("negu" :> 2) @@ ("not" :> 2) @@ ("bge" :> 3) @@ ("li" :> 2) @@ ("la" :> 2) @@
    ("move" :> 2) @@ ("sge" :> 3) @@ ("sgt" :> 3)

\* MIPS_INSTRUCTIONS has an entry for the core and the pseudo mnemonics
isMIPSInstruction(op) == op \in MIPS_CORE_INSTRUCTIONS \/ op \in MIPS_PSEUDO_INSTRUCTIONS

\* MIPS_INSTRUCTIONS[op].validate(args) throws
instructionValidateThrows(op, args) ==
    IF op \in MIPS_CORE_INSTRUCTIONS
    THEN Len(args) /= coreArity[op]
    ELSE Len(args) /= pseudoArity[op]

---------------------------------------------------------------------------
(* language/ASMDirectives *)

MIPS_ASSEMBLER_DIRECTIVES ==
    {".align", ".ascii", ".asciiz", ".byte", ".data", ".double", ".float", ".half",
     ".space", ".text", ".word"}

isMIPSAssemblerDirective(op) == op \in MIPS_ASSEMBLER_DIRECTIVES

IsDigits(tok) == tok.t = "num" /\ tok.n >= 0
IsSignedDigits(tok) == tok.t = "num"

\* MIPS_ASSEMBLER_DIRECTIVES[op].validate(args) throws
directiveValidateThrows(op, args) ==
    CASE op \in {".align", ".space"} -> Len(args) /= 1 \/ ~IsDigits(args[1])
      [] op \in {".byte", ".double", ".float", ".half"} ->
            Len(args) < 1 \/ \E i \in 1..Len(args) : ~IsSignedDigits(args[i])
      [] op \in {".data", ".text"} -> Len(args) /= 0
      [] op = ".word" -> Len(args) < 1
      [] op \in {".ascii", ".asciiz"} -> Len(args) /= 1 \/ args[1].t /= "str"

\* the number NaN; every other location counter and offset is 0 or more
NaN == -1

\* a + b on location counters and offsets
Plus(a, b) == IF a = NaN \/ b = NaN THEN NaN ELSE a + b

\* charCodeAt of the characters the string arguments use
charCode ==
    ("h" :> 104) @@ ("i" :> 105) @@ ("n" :> 110) @@ ("t" :> 116) @@ ("\\" :> 92) @@
    ("q" :> 113) @@ (" " :> 32)

\* the character code an escape sequence \c stands for
escapeCode ==
    ("n" :> 10) @@ ("t" :> 9) @@ ("r" :> 13) @@ ("b" :> 8) @@ ("f" :> 12) @@ ("v" :> 11) @@
    ("\\" :> 92) @@ ("\"" :> 34) @@ ("'" :> 39)

\* AsciiConverter.convertToAsciiArray(inputString)
RECURSIVE convertToAsciiArray(_)
convertToAsciiArray(inputString) ==
    IF inputString = <<>> THEN <<>>
    ELSE IF Head(inputString) = "\\" /\ Len(inputString) >= 2
            /\ inputString[2] \in DOMAIN escapeCode
    THEN <<escapeCode[inputString[2]]>> \o convertToAsciiArray(SubSeq(inputString, 3, Len(inputString)))
    ELSE <<charCode[Head(inputString)]>> \o convertToAsciiArray(Tail(inputString))

\* this.args.join(' ').slice(1, -1) of a string argument
unquoted(args) == args[1].chars

\* AssemblerDirective.calculateForwardOffset()
calculateForwardOffset(op, args, locationCounter) ==
    CASE op = ".align" ->
            LET alignment == parseInt32(args[1])
                remainder == IF alignment = 0 \/ locationCounter = NaN THEN NaN
                             ELSE alignment - (locationCounter % alignment)
            IN  IF remainder = alignment THEN 0 ELSE remainder
      [] op = ".ascii" -> Len(convertToAsciiArray(unquoted(args)))
      [] op = ".asciiz" -> Len(convertToAsciiArray(unquoted(args))) + 1
      [] op = ".byte" -> Len(args)
      [] op = ".data" -> 0
      [] op = ".double" -> Len(args) * 8
      [] op = ".float" -> Len(args) * 4
      [] op = ".half" -> Len(args) * 2
      [] op = ".space" -> parseInt32(args[1])
      [] op = ".text" -> 0
      [] op = ".word" -> Len(args) * 4

RECURSIVE Flatten(_)
Flatten(seqs) == IF seqs = <<>> THEN <<>> ELSE Head(seqs) \o Flatten(Tail(seqs))

\* new Uint8Array(words.buffer) of a Uint32Array: the bytes of each element
\* in the byte order of the host, least significant first on a little-endian
\* host
Uint32ArrayBytes(args) ==
    Flatten([i \in 1..Len(args) |->
        LET w == ToWord(parseInt32(args[i]))
        IN  <<w.lo % 256, w.lo \div 256, w.hi % 256, w.hi \div 256>>])

\* new Uint8Array(halfwords.buffer) of a Uint16Array
Uint16ArrayBytes(args) ==
    Flatten([i \in 1..Len(args) |->
        LET h == parseInt32(args[i]) % 65536
        IN  <<h % 256, h \div 256>>])

\* the Uint8Array of .byte
Uint8ArrayBytes(args) == [i \in 1..Len(args) |-> parseInt32(args[i]) % 256]

---------------------------------------------------------------------------
(* assembler/tokenizer: the Tokenizer class; a string is the sequence of   *)
(* its characters                                                          *)

Digits == {"0", "1", "2", "3", "4", "5", "6", "7", "8", "9"}
Letters == {"a", "b", "c", "d", "e", "f", "g", "h", "i", "j", "k", "l", "m", "n", "o",
            "p", "q", "r", "s", "t", "u", "v", "w", "x", "y", "z"}
\* the class \w of the regular expression
WordChars == Letters \cup Digits \cup {"_"}
\* the class [-\w] of the regular expression
OffsetChars == WordChars \cup {"-"}

DigitValue == [d \in Digits |->
    CASE d = "0" -> 0 [] d = "1" -> 1 [] d = "2" -> 2 [] d = "3" -> 3 [] d = "4" -> 4
      [] d = "5" -> 5 [] d = "6" -> 6 [] d = "7" -> 7 [] d = "8" -> 8 [] d = "9" -> 9]

\* a string value and a number value of an operand field
StringValue(s) == [type |-> "string", s |-> s, n |-> 0]
NumberValue(n) == [type |-> "number", s |-> <<>>, n |-> n]
UndefinedValue == [type |-> "undefined", s |-> <<>>, n |-> 0]

RECURSIVE DecimalValue(_)
DecimalValue(s) ==
    IF s = <<>> THEN 0
    ELSE 10 * DecimalValue(SubSeq(s, 1, Len(s) - 1)) + DigitValue[s[Len(s)]]

\* String.prototype.trim on a string of the model's characters
RECURSIVE trim(_)
trim(s) ==
    IF s = <<>> THEN s
    ELSE IF Head(s) = " " THEN trim(Tail(s))
    ELSE IF s[Len(s)] = " " THEN trim(SubSeq(s, 1, Len(s) - 1))
    ELSE s

\* Number(s) for a string of letters, digits, "-", "_", "$", parentheses,
\* commas and spaces: a decimal integer with an optional "-", 0 for the empty
\* string, NaN otherwise
Number(s) ==
    LET t == trim(s)
        digits == IF t /= <<>> /\ Head(t) = "-" THEN Tail(t) ELSE t
    IN  IF t = <<>> THEN [nan |-> FALSE, n |-> 0]
        ELSE IF digits /= <<>> /\ \A i \in 1..Len(digits) : digits[i] \in Digits
        THEN [nan |-> FALSE,
              n |-> IF Head(t) = "-" THEN 0 - DecimalValue(digits) ELSE DecimalValue(digits)]
        ELSE [nan |-> TRUE, n |-> 0]

\* the loop of tokenize() over the characters left
RECURSIVE tokenizeLoop(_, _, _, _)
tokenizeLoop(chars, tokens, currentToken, insideParentheses) ==
    IF chars = <<>>
    THEN IF currentToken /= <<>> THEN Append(tokens, currentToken) ELSE tokens
    ELSE LET char == Head(chars)
             rest == Tail(chars)
         IN  IF char = " " \/ char = ","
             THEN IF insideParentheses
                  THEN tokenizeLoop(rest, tokens, Append(currentToken, char), insideParentheses)
                  ELSE IF currentToken /= <<>>
                       THEN tokenizeLoop(rest, Append(tokens, currentToken), <<>>,
                                         insideParentheses)
                       ELSE tokenizeLoop(rest, tokens, currentToken, insideParentheses)
             ELSE IF char = "("
             THEN tokenizeLoop(rest, tokens, Append(currentToken, char), TRUE)
             ELSE IF char = ")"
             THEN tokenizeLoop(rest, Append(tokens, Append(currentToken, char)), <<>>, FALSE)
             ELSE tokenizeLoop(rest, tokens, Append(currentToken, char), insideParentheses)

\* Tokenizer.tokenize(instruction)
tokenize(s) == tokenizeLoop(trim(s), <<>>, <<>>, FALSE)

\* the first index from i on whose character is outside the class
RECURSIVE runEnd(_, _, _)
runEnd(s, i, class) ==
    IF i > Len(s) \/ s[i] \notin class THEN i ELSE runEnd(s, i + 1, class)

\* /([-\w]+)?\((\$\w+)\)/ matches token from index i
matchAt(token, i) ==
    LET j == runEnd(token, i, OffsetChars)
        k == runEnd(token, j + 2, WordChars)
    IN  /\ j + 1 <= Len(token)
        /\ token[j] = "("
        /\ token[j + 1] = "$"
        /\ k > j + 2
        /\ k <= Len(token)
        /\ token[k] = ")"

\* token.match(/([-\w]+)?\((\$\w+)\)/): the leftmost match, its two groups
match(token) ==
    LET starts == {i \in 1..Len(token) : matchAt(token, i)}
    IN  IF starts = {} THEN [found |-> FALSE, g1 |-> <<>>, g2 |-> <<>>]
        ELSE LET i == CHOOSE x \in starts : \A y \in starts : x <= y
                 j == runEnd(token, i, OffsetChars)
                 k == runEnd(token, j + 2, WordChars)
             IN  [found |-> TRUE, g1 |-> SubSeq(token, i, j - 1),
                  g2 |-> SubSeq(token, j + 1, k - 1)]

RegisterOperand(value) ==
    [type |-> "register", value |-> StringValue(value), offset |-> UndefinedValue,
     base |-> UndefinedValue]
ImmediateOperand(value) ==
    [type |-> "immediate", value |-> value, offset |-> UndefinedValue,
     base |-> UndefinedValue]
MemoryOperand(offset, base) ==
    [type |-> "memory", value |-> UndefinedValue, offset |-> offset,
     base |-> StringValue(base)]

\* Tokenizer.parseOperand(token)
parseOperand(token) ==
    IF \E i \in 1..Len(token) : token[i] = "("
    THEN LET m == match(token)
         IN  IF m.found
             THEN MemoryOperand(IF m.g1 /= <<>>
                                THEN IF Number(m.g1).nan THEN StringValue(m.g1)
                                     ELSE NumberValue(Number(m.g1).n)
                                ELSE NumberValue(0),
                                m.g2)
             ELSE ImmediateOperand(StringValue(token))
    ELSE IF Head(token) = "$" THEN RegisterOperand(token)
    ELSE IF ~Number(token).nan THEN ImmediateOperand(NumberValue(Number(token).n))
    ELSE ImmediateOperand(StringValue(token))

\* Tokenizer.buildAST(tokens): tokens.shift() is undefined on an empty array
buildAST(tokens) ==
    [operation |-> IF tokens = <<>> THEN UndefinedValue ELSE StringValue(Head(tokens)),
     operands |-> IF tokens = <<>> THEN <<>>
                  ELSE [i \in 1..(Len(tokens) - 1) |-> parseOperand(tokens[i + 1])]]

\* Tokenizer.parse(instruction): no statement of it throws
TokenizerParse(s) == [state |-> "returned", ast |-> buildAST(tokenize(s))]

\* before Tokenizer.parse is called
InitTokenizer ==
    /\ instruction = <<>>
    /\ ast = [state |-> "pending", ast |-> buildAST(<<>>)]

---------------------------------------------------------------------------
(* components/memory: the Memory class *)

\* the memory of a fresh or cleared Memory: every byte 0
ZeroMemory == [a \in {} |-> 0]

\* the byte the Uint8Array holds at an index inside it
ByteAt(mem, a) == IF a \in DOMAIN mem THEN mem[a] ELSE 0

\* validateAddress with the bound check off by one
validateAddressThrowsOffByOne(size, a, length) == a < 0 \/ a + length >= size

\* validateAddress(address, length) throws
validateAddressThrows(size, a, length) == a < 0 \/ a + length > size

\* DataView.getUint8 / getUint32 throw a RangeError outside the buffer
ViewOutOfRange(size, a, length) == a < 0 \/ a + length > size

\* the loop of write(): view.setUint8(address + i, data[i]) for every i
StoreBytes(mem, a, data) ==
    LET touched == {a + i - 1 : i \in 1..Len(data)}
        val(x) == IF x \in touched THEN data[x - a + 1] ELSE ByteAt(mem, x)
    IN  [x \in {y \in (DOMAIN mem) \cup touched : val(y) /= 0} |-> val(x)]

\* getUint32 reading the four bytes little-endian
WordAtLittleEndian(mem, a) ==
    W(ByteAt(mem, a + 3) * 256 + ByteAt(mem, a + 2), ByteAt(mem, a + 1) * 256 + ByteAt(mem, a))

\* view.getUint32(address, false): big-endian
WordAt(mem, a) ==
    W(ByteAt(mem, a) * 256 + ByteAt(mem, a + 1), ByteAt(mem, a + 2) * 256 + ByteAt(mem, a + 3))

\* the listeners notifyListeners(address, data) invokes, in order
ListenersAt(ls, a) == IF a \in DOMAIN ls THEN ls[a] ELSE <<>>

\* notifyListeners run on memory image mem: one invocation per listener
Notifications(ls, a, data, mem) ==
    [i \in 1..Len(ListenersAt(ls, a)) |->
        [fn |-> ListenersAt(ls, a)[i], data |-> data, mem |-> mem]]

\* write with the listeners notified before the bytes are stored
WriteResultNotifyFirst(size, mem, ls, a, data) ==
    IF validateAddressThrows(size, a, Len(data))
    THEN [thrown |-> "Error", memory |-> mem, calls |-> <<>>]
    ELSE [thrown |-> "none", memory |-> StoreBytes(mem, a, data),
          calls |-> Notifications(ls, a, data, mem)]

\* write(address, data): validate, store, then notify
WriteResult(size, mem, ls, a, data) ==
    IF validateAddressThrows(size, a, Len(data))
    THEN [thrown |-> "Error", memory |-> mem, calls |-> <<>>]
    ELSE LET stored == StoreBytes(mem, a, data)
         IN  [thrown |-> "none", memory |-> stored,
              calls |-> Notifications(ls, a, data, stored)]

NoResult == [byte |-> 0, word |-> W(0, 0)]
Call(name, a, data) == [name |-> name, address |-> a, data |-> data]

\* the inputs of the Memory calls of SpecMem
ByteVals == {0, 1}
Addresses == -1 .. MemSize + 1
DataArrays == UNION {[1..n -> ByteVals] : n \in 0..MaxData}

RECURSIVE SumLen(_, _)
SumLen(ls, S) ==
    IF S = {} THEN 0
    ELSE LET a == CHOOSE x \in S : TRUE
         IN  Len(ls[a]) + SumLen(ls, S \ {a})

\* the number of listeners the memory holds
ListenerCount == SumLen(listeners, DOMAIN listeners)

Write(a, data) ==
    LET r == WriteResult(MEMORY_SIZE, memory, listeners, a, data)
    IN  /\ memory' = r.memory
        /\ calls' = r.calls
        /\ thrown' = r.thrown
        /\ result' = NoResult
        /\ lastOp' = Call("write", a, data)
        /\ UNCHANGED <<MEMORY_SIZE, listeners>>

\* addListener(address, listener); the callbacks are named 1, 2, ... in the
\* order of their registration, MaxListeners of them at most at a time
AddListener(a, fn) ==
    /\ ListenerCount < MaxListeners
    /\ listeners' = [x \in (DOMAIN listeners) \cup {a} |->
                        IF x = a THEN Append(ListenersAt(listeners, a), fn)
                        ELSE listeners[x]]
    /\ calls' = <<>>
    /\ thrown' = "none"
    /\ result' = NoResult
    /\ lastOp' = Call("addListener", a, <<>>)
    /\ UNCHANGED <<MEMORY_SIZE, memory>>

ReadByte(a) ==
    /\ thrown' = IF ViewOutOfRange(MEMORY_SIZE, a, 1) THEN "RangeError" ELSE "none"
    /\ result' = IF ViewOutOfRange(MEMORY_SIZE, a, 1) THEN NoResult
                  ELSE [NoResult EXCEPT !.byte = ByteAt(memory, a)]
    /\ calls' = <<>>
    /\ lastOp' = Call("readByte", a, <<>>)
    /\ UNCHANGED <<MEMORY_SIZE, memory, listeners>>

ReadWord(a) ==
    /\ thrown' = IF ViewOutOfRange(MEMORY_SIZE, a, 4) THEN "RangeError" ELSE "none"
    /\ result' = IF ViewOutOfRange(MEMORY_SIZE, a, 4) THEN NoResult
                  ELSE [NoResult EXCEPT !.word = WordAt(memory, a)]
    /\ calls' = <<>>
    /\ lastOp' = Call("readWord", a, <<>>)
    /\ UNCHANGED <<MEMORY_SIZE, memory, listeners>>

\* clear that zeroes the bytes and keeps the listeners
ClearKeepListeners ==
    /\ memory' = ZeroMemory
    /\ calls' = <<>>
    /\ thrown' = "none"
    /\ result' = NoResult
    /\ lastOp' = Call("clear", 0, <<>>)
    /\ UNCHANGED <<MEMORY_SIZE, listeners>>

\* clear(): memory.fill(0), listeners.clear()
Clear ==
    /\ memory' = ZeroMemory
    /\ listeners' = [a \in {} |-> <<>>]
    /\ calls' = <<>>
    /\ thrown' = "none"
    /\ result' = NoResult
    /\ lastOp' = Call("clear", 0, <<>>)
    /\ UNCHANGED MEMORY_SIZE

---------------------------------------------------------------------------
(* language/ASMDirectives: execution against the assembler's memory *)

\* the Uint8Array execute() hands to memory.write
writtenBytes(op, args) ==
    CASE op \in {".ascii", ".asciiz"} -> Append(convertToAsciiArray(unquoted(args)), 0)
      [] op = ".byte" -> Uint8ArrayBytes(args)
      [] op = ".half" -> Uint16ArrayBytes(args)
      [] op = ".word" -> Uint32ArrayBytes(args)

\* the directives whose execute() calls memory.write
WritingDirectives == {".ascii", ".asciiz", ".byte", ".half", ".word"}

\* AssemblerDirective.execute(): the result of its memory.write, if any; at the
\* address NaN the bound check passes and every setUint8 stores at index 0
execute(op, args, locationCounter, size, mem, ls) ==
    IF op \notin WritingDirectives THEN [thrown |-> "none", memory |-> mem, calls |-> <<>>]
    ELSE IF locationCounter = NaN
    THEN LET data == writtenBytes(op, args)
         IN  [thrown |-> "none",
              memory |-> IF data = <<>> THEN mem ELSE StoreBytes(mem, 0, <<data[Len(data)]>>),
              calls |-> <<>>]
    ELSE WriteResult(size, mem, ls, locationCounter, writtenBytes(op, args))

\* before an AssemblerDirective is built
InitDirective ==
    /\ directive = [op |-> ".text", args |-> <<>>, locationCounter |-> 0]
    /\ counter = 0
    /\ forwardOffset = 0

---------------------------------------------------------------------------
(* assembler/assembler: validate and buildSymbolTable (pass 1) *)

isSegmentLine(line) == line.kind = "stmt" /\ line.op \in {".text", ".data"} /\ line.args = <<>>
isDirectiveLine(line) == line.kind = "stmt" /\ isMIPSAssemblerDirective(line.op)

\* the error validate() throws at one line, "none" when the line passes
validateLine(line) ==
    IF isDirectiveLine(line)
    THEN IF directiveValidateThrows(line.op, line.args)
         THEN "MIPSAssemblerDirectiveSyntaxError" ELSE "none"
    ELSE IF line.kind = "stmt" /\ isMIPSInstruction(line.op)
    THEN IF instructionValidateThrows(line.op, line.args)
         THEN "MIPSAssemblerInstructionSyntaxError" ELSE "none"
    ELSE IF isValidLabel(line) THEN "none"
    ELSE "MIPSAssemblerSyntaxError"

RECURSIVE validate(_)
validate(lines) ==
    IF lines = <<>> THEN "none"
    ELSE IF validateLine(Head(lines)) /= "none" THEN validateLine(Head(lines))
    ELSE validate(Tail(lines))

\* the locationCounter object both passes start from
StartCounters(table) == (".text" :> table[".text"]) @@ (".data" :> table[".data"])

\* table[label] = value
SetLabel(table, label, value) == (label :> value) @@ table

\* one iteration of buildSymbolTable's loop
buildStep(st, line) ==
    IF isDirectiveLine(line)
    THEN LET seg == IF isSegmentLine(line) THEN line.op ELSE st.segment
         IN  [st EXCEPT !.segment = seg,
                        !.lc[seg] = Plus(@, calculateForwardOffset(line.op, line.args, @))]
    ELSE IF isValidLabel(line)
    THEN [st EXCEPT !.table = SetLabel(@, line.op, st.lc[st.segment])]
    ELSE [st EXCEPT !.lc[st.segment] = Plus(@, 4)]

RECURSIVE buildLoop(_, _)
buildLoop(st, lines) ==
    IF lines = <<>> THEN st ELSE buildLoop(buildStep(st, Head(lines)), Tail(lines))

\* the symbol table buildSymbolTable() leaves
buildSymbolTable(table, lines) ==
    buildLoop([segment |-> ".text", lc |-> StartCounters(table), table |-> table], lines).table

---------------------------------------------------------------------------
(* assembler/assembler: expand *)

Zero == Reg("$0")
At == Reg("$1")

\* (parseInt(arg) >>> 16) & 0xffff and parseInt(arg) & 0xffff
upperImm(tok) == Num(ToWord(parseInt32(tok)).hi)
lowerImm(tok) == Num(ToWord(parseInt32(tok)).lo)

expand(line) ==
    LET a0 == Arg(line.args, 1)
        a1 == Arg(line.args, 2)
        a2 == Arg(line.args, 3)
    IN  IF line.kind /= "stmt" \/ ~isMIPSPseudoInstruction(line.op) THEN <<line>>
        ELSE CASE line.op = "abs" ->
                    <<Stmt("sub", <<a0, Zero, a1>>), Stmt("bge", <<a1, Zero, Num(1)>>),
                      Stmt("sub", <<a0, Zero, a1>>)>>
               [] line.op = "blt" -> <<Stmt("slt", <<At, a0, a1>>), Stmt("bne", <<At, Zero, a2>>)>>
               [] line.op = "bgt" -> <<Stmt("slt", <<At, a1, a0>>), Stmt("bne", <<At, Zero, a2>>)>>
               [] line.op = "ble" -> <<Stmt("slt", <<At, a1, a0>>), Stmt("beq", <<At, Zero, a2>>)>>
               [] line.op = "neg" -> <<Stmt("sub", <<a0, Zero, a1>>)>>
               [] line.op = "negu" -> <<Stmt("subu", <<a0, Zero, a1>>)>>
               [] line.op = "not" -> <<Stmt("nor", <<a0, a1, Zero>>)>>
               [] line.op = "bge" -> <<Stmt("slt", <<At, a1, a0>>), Stmt("beq", <<At, Zero, a2>>)>>
               [] line.op \in {"li", "la"} ->
                    <<Stmt("lui", <<a0, upperImm(a1)>>), Stmt("ori", <<a0, a0, lowerImm(a1)>>)>>
               [] line.op = "move" -> <<Stmt("add", <<a0, Zero, a1>>)>>
               [] line.op = "sge" ->
                    <<Stmt("slt", <<At, a1, a0>>), Stmt("xori", <<a0, At, Num(1)>>)>>
               [] line.op = "sgt" -> <<Stmt("slt", <<a0, a1, a0>>)>>

---------------------------------------------------------------------------
(* assembler/assembler: resolveSymbols *)

\* Stage 1, the update of one label for a pseudo-instruction of
\* instructionLength bytes met at locationCounter in segment seg
shiftLabel(table, label, seg, locationCounter, instructionLength) ==
    LET labelSegment == IF table[label] < table[".data"] THEN ".text" ELSE ".data"
    IN  IF label \in {".text", ".data"} THEN table[label]
        ELSE IF table[label] = NaN \/ locationCounter = NaN THEN table[label]
        ELSE IF labelSegment = seg /\ table[label] >= locationCounter + instructionLength
        THEN table[label] + instructionLength - 4
        ELSE table[label]

\* one iteration of the Stage 1 loop
stage1Step(st, line) ==
    IF isValidLabel(line) THEN st
    ELSE IF isSegmentLine(line) THEN [st EXCEPT !.segment = line.op]
    ELSE IF isMIPSAssemblerDirective(line.op)
    THEN [st EXCEPT !.lc[st.segment] = Plus(@, calculateForwardOffset(line.op, line.args, @))]
    ELSE LET instructionLength ==
                 IF isMIPSPseudoInstruction(line.op) THEN Len(expand(line)) * 4 ELSE 4
             lc == st.lc[st.segment]
         IN  [st EXCEPT
                 !.table = IF isMIPSPseudoInstruction(line.op)
                           THEN [label \in DOMAIN st.table |->
                                    shiftLabel(st.table, label, st.segment, lc, instructionLength)]
                           ELSE @,
                 !.layout = @ \o [j \in 1..(instructionLength \div 4) |->
                                     [segment |-> st.segment, address |-> lc + 4 * (j - 1)]],
                 !.lc[st.segment] = Plus(@, instructionLength)]

RECURSIVE stage1Loop(_, _)
stage1Loop(st, lines) ==
    IF lines = <<>> THEN st ELSE stage1Loop(stage1Step(st, Head(lines)), Tail(lines))

\* Stage 1: the final symbol table and the segment the loop ends in
stage1(table, lines) ==
    stage1Loop([segment |-> ".text", lc |-> StartCounters(table), table |-> table,
                layout |-> <<>>], lines)

\* !this.symbolTable[name]
isFalsy(table, name) == name \notin DOMAIN table \/ table[name] = 0 \/ table[name] = NaN

\* the error the resolving map() throws at one operand, "none" when it returns
resolveError(table, tok) ==
    CASE tok.t = "mem" /\ tok.s /= "" ->
            IF isFalsy(table, tok.s) THEN "Unknown label" ELSE "none"
      [] tok.t = "reg" -> IF ~isValidRegister(tok.s) THEN "Unknown register" ELSE "none"
      [] tok.t = "lab" -> IF isFalsy(table, tok.s) THEN "Unknown label" ELSE "none"
      [] OTHER -> "none"

\* the operand the resolving map() returns
resolveArg(table, tok) ==
    CASE tok.t = "mem" /\ tok.s /= "" -> MemNum(table[tok.s], tok.b)
      [] tok.t = "reg" -> Reg(unaliasRegister(tok.s))
      [] tok.t = "lab" -> Num(table[tok.s])
      [] OTHER -> tok

\* the first error of the operands, in order
RECURSIVE firstError(_, _)
firstError(table, args) ==
    IF args = <<>> THEN "none"
    ELSE IF resolveError(table, Head(args)) /= "none" THEN resolveError(table, Head(args))
    ELSE firstError(table, Tail(args))

\* the rebuilt instruction, a memory reference expanded to `op source base offset`
rebuild(op, args) ==
    LET mems == SelectSeq(args, LAMBDA tok : tok.t = "mem")
        regs == SelectSeq(args, LAMBDA tok : tok.t = "reg")
    IN  IF mems = <<>> THEN Stmt(op, args)
        ELSE Stmt(op, <<regs[1], Reg(mems[1].b), Num(mems[1].n)>>)

\* a memory reference without a register operand: find(...)!.value of undefined
rebuildThrows(args) ==
    /\ SelectSeq(args, LAMBDA tok : tok.t = "mem") /= <<>>
    /\ SelectSeq(args, LAMBDA tok : tok.t = "reg") = <<>>

\* one iteration of the Stage 2 loop; st.error stops the loop
stage2Step(st, line, table, size, ls) ==
    IF isDirectiveLine(line)
    THEN LET seg == IF isSegmentLine(line) THEN line.op ELSE st.segment
             lc == st.lc[seg]
             w == execute(line.op, line.args, lc, size, st.memory, ls)
         IN  [st EXCEPT !.segment = seg,
                        !.lc[seg] = Plus(@, calculateForwardOffset(line.op, line.args, @)),
                        !.memory = w.memory,
                        !.error = w.thrown]
    ELSE IF isValidLabel(line) THEN st
    ELSE IF firstError(table, line.args) /= "none"
    THEN [st EXCEPT !.error = firstError(table, line.args)]
    ELSE LET args == [i \in 1..Len(line.args) |-> resolveArg(table, line.args[i])]
         IN  IF rebuildThrows(args) THEN [st EXCEPT !.error = "TypeError"]
             ELSE [st EXCEPT !.resolved = Append(@, rebuild(line.op, args)),
                             !.lc[st.segment] = Plus(@, 4)]

RECURSIVE stage2Loop(_, _, _, _, _)
stage2Loop(st, lines, table, size, ls) ==
    IF lines = <<>> \/ st.error /= "none" THEN st
    ELSE stage2Loop(stage2Step(st, Head(lines), table, size, ls), Tail(lines), table, size, ls)

\* Stage 2, entered in the segment Stage 1 ended in
stage2(seg, table, lines, size, mem, ls) ==
    stage2Loop([segment |-> seg, lc |-> StartCounters(table), memory |-> mem,
                resolved |-> <<>>, error |-> "none"], lines, table, size, ls)

\* Stage 3: every resolved instruction expanded once
stage3(lines) == Flatten([i \in 1..Len(lines) |-> expand(lines[i])])

---------------------------------------------------------------------------
(* assembler/assembler: assembleInstructions *)

\* args.filter(isValidRegister).map(registerLookup).map(reg => reg.registerNumber)
registerNumbers(args) ==
    LET regs == SelectSeq(args, LAMBDA tok : isValidRegister(tok.s))
    IN  [i \in 1..Len(regs) |-> registerLookup(regs[i].s)]

\* a destructured element; a missing one is undefined, 0 under << and |
Nth(numbers, i) == IF i <= Len(numbers) THEN numbers[i] ELSE 0

\* field << shift as a 32-bit integer
Field(value, shift) == ShlW(ToWord(value), shift)

RECURSIVE OrAll(_)
OrAll(words) == IF words = <<>> THEN W(0, 0) ELSE OrW(Head(words), OrAll(Tail(words)))

I_ARITHMETIC == {"addi", "addiu", "andi", "ori", "xori", "slti", "sltiu"}
LOAD_STORE == {"lw", "lh", "lhu", "lb", "lbu", "ll", "sw", "sb", "sh", "sc"}
BRANCH_EQUIVALENCE == {"bne", "beq"}
BRANCH_COMPARISON == {"bgez", "bgezal", "bgtz", "blez", "bltz", "bltzal"}
JUMP_REGISTER == {"jr", "jalr"}
R_ARITHMETIC ==
    {"add", "addu", "and", "nor", "or", "slt", "sltu", "sub", "subu", "xor", "sllv", "srlv", "srav"}
SHIFT == {"sll", "srl", "sra"}
JUMP == {"j", "jal"}

\* instructionDetails.funct ?? 0
functOf(op) == IF op \in DOMAIN funct THEN funct[op] ELSE 0

\* the R-type word with rs and rt exchanged
encodeRArithmeticSwapped(op, args) ==
    LET r == registerNumbers(args)
    IN  OrAll(<<Field(opCode[op], 26), Field(Nth(r, 3), 21), Field(Nth(r, 2), 16),
                Field(Nth(r, 1), 11), Field(0, 6), ToWord(functOf(op))>>)

\* case 'add' ... 'srav': [rd, rs, rt]
encodeRArithmetic(op, args) ==
    LET r == registerNumbers(args)
    IN  OrAll(<<Field(opCode[op], 26), Field(Nth(r, 2), 21), Field(Nth(r, 3), 16),
                Field(Nth(r, 1), 11), Field(0, 6), ToWord(functOf(op))>>)

\* the body of the switch for the other classes of a known instruction
encodeOther(op, args) ==
    LET r == registerNumbers(args)
        lsArgs == IF Len(args) = 2 THEN <<Zero>> \o args ELSE args
        lsr == registerNumbers(lsArgs)
    IN  CASE op \in I_ARITHMETIC ->
                OrAll(<<Field(opCode[op], 26), Field(Nth(r, 2), 21), Field(Nth(r, 1), 16),
                        And16(parseInt32(Arg(args, 3)))>>)
          [] op \in LOAD_STORE ->
                OrAll(<<Field(opCode[op], 26), Field(Nth(lsr, 2), 21), Field(Nth(lsr, 1), 16),
                        And16(parseInt32(Arg(lsArgs, 3)))>>)
          [] op \in BRANCH_EQUIVALENCE ->
                OrAll(<<Field(opCode[op], 26), Field(Nth(r, 1), 21), Field(Nth(r, 2), 16),
                        And16(parseInt32(Arg(args, 3)))>>)
          [] op \in BRANCH_COMPARISON ->
                OrAll(<<Field(opCode[op], 26), Field(Nth(r, 1), 21),
                        And16(parseInt32(Arg(args, 2)))>>)
          [] op = "lui" ->
                OrAll(<<Field(opCode[op], 26), Field(Nth(r, 1), 16),
                        And16(parseInt32(Arg(args, 2)))>>)
          [] op \in JUMP_REGISTER ->
                OrAll(<<Field(opCode[op], 26), Field(Nth(r, 1), 21), ToWord(functOf(op))>>)
          [] op \in SHIFT ->
                OrAll(<<Field(opCode[op], 26), Field(Nth(r, 2), 16), Field(Nth(r, 1), 11),
                        ShlW(ToWord(parseInt32(Arg(args, 3))), 6), ToWord(functOf(op))>>)
          [] op \in JUMP ->
                OrAll(<<Field(opCode[op], 26), And26(parseInt32(Arg(args, 1)))>>)
          [] op = "nop" -> Field(opCode[op], 26)

\* the instructions the switch has a case for and the table an entry for
isEncodable(op) ==
    /\ op \in DOMAIN opCode
    /\ op \in I_ARITHMETIC \cup LOAD_STORE \cup BRANCH_EQUIVALENCE \cup BRANCH_COMPARISON
              \cup {"lui", "nop"} \cup JUMP_REGISTER \cup R_ARITHMETIC \cup SHIFT \cup JUMP

\* rawInstruction of one line
encode(line) ==
    IF line.op \in R_ARITHMETIC THEN encodeRArithmetic(line.op, line.args)
    ELSE encodeOther(line.op, line.args)

\* assembleInstructions: the words, or the error of the first line without a case
assembleInstructions(lines) ==
    IF \E i \in 1..Len(lines) : ~isEncodable(lines[i].op)
    THEN [error |-> "Unknown Instruction", words |-> <<>>]
    ELSE [error |-> "none", words |-> [i \in 1..Len(lines) |-> encode(lines[i])]]

\* view.setUint32(offset, word, true): least significant byte first
setUint32LittleEndian(w) == <<w.lo % 256, w.lo \div 256, w.hi % 256, w.hi \div 256>>

\* view.setUint32(offset, word, false): most significant byte first
setUint32(w) == <<w.hi \div 256, w.hi % 256, w.lo \div 256, w.lo % 256>>

\* new Uint8Array(machineCode.buffer)
bufferBytes(words) == Flatten([i \in 1..Len(words) |-> setUint32(words[i])])

---------------------------------------------------------------------------
(* hardware/instructionSplitter *)

\* InstructionSplitter._update() on the input value
splitInstruction(value) ==
    [opCode  |-> (value.hi \div 1024) % 64,
     rs      |-> (value.hi \div 32) % 32,
     rt      |-> value.hi % 32,
     rd      |-> (value.lo \div 2048) % 32,
     shamt   |-> (value.lo \div 64) % 32,
     funct   |-> value.lo % 64,
     imm     |-> value.lo,
     address |-> (value.hi % 1024) * 65536 + value.lo]

---------------------------------------------------------------------------
(* hardware/connector: Wire and Connector.  Wire values are the 32-bit     *)
(* integers the bitwise operators produce.                                 *)

\* Wire.setValue: value & mask with mask = 2 ** size - 1; the operands of &
\* are 32-bit integers, so the mask of a 32-bit wire is -1
setValue(size, value) ==
    IF size >= 32 THEN value
    ELSE IF size = 31 THEN (IF value >= 0 THEN value ELSE (value + 2147483647) + 1)
    ELSE value % (2 ^ size)

\* a connector: connected to a wire, to a static value, or to nothing
NoConnector == [kind |-> "none", wire |-> 0, value |-> 0]
OnWire(w) == [kind |-> "wire", wire |-> w, value |-> 0]
Static(v) == [kind |-> "value", wire |-> 0, value |-> v]

\* Connector.getValue throws 'Invalid value' without a value and a wire
getValueThrows(connector) == connector.kind = "none"

\* Connector.getValue
getValue(connector, values) ==
    IF connector.kind = "value" THEN connector.value ELSE values[connector.wire]

\* Connector.setValue: the wire values afterwards; without a wire it only warns
connectorSetValue(connector, value, sizes, values) ==
    IF connector.kind = "wire"
    THEN [values EXCEPT ![connector.wire] = setValue(sizes[connector.wire], value)]
    ELSE values

\* Connector.connect(flowFrom, flowTo) throws 'Connector sizes must match'
connectThrows(sizeFrom, sizeTo) == sizeFrom /= sizeTo

---------------------------------------------------------------------------
(* hardware: the components.  A component is a record of its class, its    *)
(* connectors and, for ShiftLeft, its shift amount.                        *)

Component(kind, input1, input2, control, output, shamt) ==
    [kind |-> kind, input1 |-> input1, input2 |-> input2, control |-> control,
     output |-> output, shamt |-> shamt]

\* a & b on 32-bit integers
RECURSIVE bitAnd(_, _)
bitAnd(a, b) ==
    IF a = 0 \/ b = 0 THEN 0
    ELSE IF a = -1 THEN b
    ELSE IF b = -1 THEN a
    ELSE (a % 2) * (b % 2) + 2 * bitAnd(a \div 2, b \div 2)

\* a | b on 32-bit integers
bitOr(a, b) == (a - bitAnd(a, b)) + b

\* ~a on 32-bit integers
bitNot(a) == (-a) - 1

\* the number a + b as & reads it: wrapped to a 32-bit integer
add32(a, b) ==
    IF a > 0 /\ b > 0 /\ a > 2147483647 - b
    THEN ((a - 2147483647) - 1) + ((b - 2147483647) - 1)
    ELSE IF a < 0 /\ b < 0 /\ a < (-2147483647 - 1) - b
    THEN ((a + 2147483647) + 1) + ((b + 2147483647) + 1)
    ELSE a + b

\* a << n on 32-bit integers
shiftLeft32(a, n) ==
    IF n = 0 THEN a
    ELSE LET half == 2 ^ (31 - n)
             low == setValue(32 - n, a)
         IN  IF low < half THEN low * (2 ^ n) ELSE ((low - half) - half) * (2 ^ n)

\* the classes whose _update throws 'Method not implemented.'
NotImplemented == {"PC", "ALU", "MemoryFile"}

\* the connectors an update() reads before it writes, in order
readConnectors(c, values) ==
    CASE c.kind \in {"Adder", "AndGate", "OrGate"} -> <<c.output, c.input1, c.input2>>
      [] c.kind \in {"NotGate", "ZeroExtender", "ShiftLeft", "Register"} -> <<c.output, c.input1>>
      [] c.kind = "MUX" ->
            IF getValueThrows(c.control) THEN <<c.output, c.control>>
            ELSE IF getValue(c.control, values) = 0 THEN <<c.output, c.control, c.input1>>
            ELSE <<c.output, c.control, c.input2>>
      [] OTHER -> <<c.output>>

\* what update() throws, "none" when it returns
updateError(c, values) ==
    IF \E i \in 1..Len(readConnectors(c, values)) : getValueThrows(readConnectors(c, values)[i])
    THEN "Invalid value"
    ELSE IF c.kind \in NotImplemented THEN "Method not implemented."
    ELSE "none"

\* the value _update() hands to output.setValue
outputValue(c, values) ==
    CASE c.kind = "Adder" -> add32(getValue(c.input1, values), getValue(c.input2, values))
      [] c.kind = "AndGate" -> bitAnd(getValue(c.input1, values), getValue(c.input2, values))
      [] c.kind = "OrGate" -> bitOr(getValue(c.input1, values), getValue(c.input2, values))
      [] c.kind = "NotGate" -> bitNot(getValue(c.input1, values))
      [] c.kind = "ZeroExtender" -> getValue(c.input1, values)
      [] c.kind = "ShiftLeft" -> shiftLeft32(getValue(c.input1, values), c.shamt)
      [] c.kind = "MUX" ->
            IF getValue(c.control, values) = 0 THEN getValue(c.input1, values)
            ELSE getValue(c.input2, values)

\* an update() that writes its output and always reports no change
updateReportsNoChange(c, k, sizes, st) ==
    IF updateError(c, st.wire) /= "none" THEN [st EXCEPT !.error = updateError(c, st.wire)]
    ELSE IF c.kind = "Register"
    THEN [st EXCEPT !.value[k] = getValue(c.input1, st.wire)]
    ELSE [st EXCEPT !.wire = connectorSetValue(c.output, outputValue(c, st.wire), sizes, st.wire)]

\* SingleOutputComponent.update of instance k on the state of a pass:
\* the wires, the Register values, the flag and the error so far
update(c, k, sizes, st) ==
    IF updateError(c, st.wire) /= "none" THEN [st EXCEPT !.error = updateError(c, st.wire)]
    ELSE IF c.kind = "Register"
    THEN [st EXCEPT !.value[k] = getValue(c.input1, st.wire)]
    ELSE LET after == connectorSetValue(c.output, outputValue(c, st.wire), sizes, st.wire)
         IN  [st EXCEPT !.wire = after,
                        !.hasChanged = getValue(c.output, after) /= getValue(c.output, st.wire)
                                       \/ @]

\* for (const instance of Component._instances) hasChanged = instance.update() || hasChanged
RECURSIVE forInstances(_, _, _, _)
forInstances(comps, k, sizes, st) ==
    IF k > Len(comps) \/ st.error /= "none" THEN st
    ELSE forInstances(comps, k + 1, sizes, update(comps[k], k, sizes, st))

\* no component has been constructed
InitHardware ==
    /\ instances = <<>>
    /\ wireSize = <<>>
    /\ wireValue = <<>>
    /\ registerValue = <<>>
    /\ hasChanged = FALSE
    /\ iteration = 0
    /\ tickState = "idle"

---------------------------------------------------------------------------
(* the state after construction *)

InitMemory(size) ==
    /\ MEMORY_SIZE = size
    /\ memory = ZeroMemory
    /\ listeners = [a \in {} |-> <<>>]
    /\ calls = <<>>
    /\ thrown = "none"
    /\ result = NoResult
    /\ lastOp = Call("none", 0, <<>>)

InitAssembler ==
    /\ instructions = <<>>
    /\ symbolTable = (".text" :> 0) @@ (".data" :> 2048)
    /\ segment = ".text"
    /\ layout = <<>>
    /\ resolved = <<>>
    /\ machineCode = <<>>
    /\ address = 0
    /\ ret = 0
    /\ error = "none"
    /\ pc = "idle"

InitSplitter == outputs = [opCode |-> 0, rs |-> 0, rt |-> 0, rd |-> 0, shamt |-> 0,
                           funct |-> 0, imm |-> 0, address |-> 0]

---------------------------------------------------------------------------
(* Spec: one assemble(source, address) call of the chip's assembler *)

\* SCMIPSChip: the size of the memory the assembler writes into
MIPS_MEMORY_SIZE == 33554432

\* the normalized lines sources are made of
SourceLines ==
    {LabelLine("loop"), LabelLine("target"),
     Stmt("nop", <<>>),
     Stmt("li", <<Reg("$t0"), Num(1)>>),
     Stmt("abs", <<Reg("$t0"), Reg("$9")>>),
     Stmt("beq", <<Reg("$t0"), Reg("$t2"), Lab("loop")>>),
     Stmt("lw", <<Reg("$t0"), MemLab("loop", "$zero")>>),
     Stmt(".word", <<Num(2)>>),
     Stmt(".data", <<>>),
     Stmt(".text", <<>>),
     Stmt("foo", <<>>)}

Sources == UNION {[1..n -> SourceLines] : n \in 0..MaxLines}

\* the load addresses: the text base and the last word of the memory
LoadAddresses == {0, MIPS_MEMORY_SIZE - 4}

\* assemble(source, address) is entered and parse() returns the lines
Parse(source, a) ==
    /\ pc = "idle"
    /\ instructions' = source
    /\ address' = a
    /\ pc' = "parsed"
    /\ UNCHANGED <<symbolTable, segment, layout, resolved, machineCode, ret, error>>
    /\ UNCHANGED memVars

Validate ==
    /\ pc = "parsed"
    /\ error' = validate(instructions)
    /\ pc' = IF validate(instructions) = "none" THEN "validated" ELSE "failed"
    /\ UNCHANGED <<instructions, symbolTable, segment, layout, resolved, machineCode, address, ret>>
    /\ UNCHANGED memVars

BuildSymbolTable ==
    /\ pc = "validated"
    /\ symbolTable' = buildSymbolTable(symbolTable, instructions)
    /\ pc' = "pass1"
    /\ UNCHANGED <<instructions, segment, layout, resolved, machineCode, address, ret, error>>
    /\ UNCHANGED memVars

ResolveStage1 ==
    /\ pc = "pass1"
    /\ LET st == stage1(symbolTable, instructions)
       IN  /\ symbolTable' = st.table
           /\ segment' = st.segment
           /\ layout' = st.layout
    /\ pc' = "stage1"
    /\ UNCHANGED <<instructions, resolved, machineCode, address, ret, error>>
    /\ UNCHANGED memVars

ResolveStage2 ==
    /\ pc = "stage1"
    /\ LET st == stage2(segment, symbolTable, instructions, MEMORY_SIZE, memory, listeners)
       IN  /\ segment' = st.segment
           /\ memory' = st.memory
           /\ resolved' = st.resolved
           /\ error' = st.error
           /\ pc' = IF st.error = "none" THEN "stage2" ELSE "failed"
    /\ UNCHANGED <<instructions, symbolTable, layout, machineCode, address, ret>>
    /\ UNCHANGED <<MEMORY_SIZE, listeners, calls, thrown, result, lastOp>>

ResolveStage3 ==
    /\ pc = "stage2"
    /\ resolved' = stage3(resolved)
    /\ pc' = "stage3"
    /\ UNCHANGED <<instructions, symbolTable, segment, layout, machineCode, address, ret, error>>
    /\ UNCHANGED memVars

AssembleInstructions ==
    /\ pc = "stage3"
    /\ LET r == assembleInstructions(resolved)
       IN  /\ machineCode' = r.words
           /\ error' = r.error
           /\ pc' = IF r.error = "none" THEN "encoded" ELSE "failed"
    /\ UNCHANGED <<instructions, symbolTable, segment, layout, resolved, address, ret>>
    /\ UNCHANGED memVars

Load ==
    /\ pc = "encoded"
    /\ LET w == WriteResult(MEMORY_SIZE, memory, listeners, address, bufferBytes(machineCode))
       IN  /\ memory' = w.memory
           /\ calls' = w.calls
           /\ thrown' = w.thrown
           /\ error' = w.thrown
           /\ ret' = IF w.thrown = "none" THEN address ELSE ret
           /\ pc' = IF w.thrown = "none" THEN "done" ELSE "failed"
    /\ lastOp' = Call("write", address, bufferBytes(machineCode))
    /\ UNCHANGED <<instructions, symbolTable, segment, layout, resolved, machineCode, address>>
    /\ UNCHANGED <<MEMORY_SIZE, listeners, result>>

\* the caller reads back a loaded word with memory.readWord
ReadBack ==
    /\ pc = "done"
    /\ \E i \in 1..Len(machineCode) : ReadWord(address + 4 * (i - 1))
    /\ UNCHANGED asmVars

AssembleCall ==
    /\ pc = "idle"
    /\ \E source \in Sources, a \in LoadAddresses : Parse(source, a)

Init == InitMemory(MIPS_MEMORY_SIZE) /\ InitAssembler /\ InitSplitter /\ InitTokenizer /\ InitDirective /\ InitHardware

Next ==
    \/ AssembleCall /\ UNCHANGED <<outputs, tokVars, dirVars, hwVars>>
    \/ Validate /\ UNCHANGED <<outputs, tokVars, dirVars, hwVars>>
    \/ BuildSymbolTable /\ UNCHANGED <<outputs, tokVars, dirVars, hwVars>>
    \/ ResolveStage1 /\ UNCHANGED <<outputs, tokVars, dirVars, hwVars>>
    \/ ResolveStage2 /\ UNCHANGED <<outputs, tokVars, dirVars, hwVars>>
    \/ ResolveStage3 /\ UNCHANGED <<outputs, tokVars, dirVars, hwVars>>
    \/ AssembleInstructions /\ UNCHANGED <<outputs, tokVars, dirVars, hwVars>>
    \/ Load /\ UNCHANGED <<outputs, tokVars, dirVars, hwVars>>
    \/ ReadBack /\ UNCHANGED <<outputs, tokVars, dirVars, hwVars>>

Spec == Init /\ [][Next]_vars

---------------------------------------------------------------------------
(* SpecMem: a Memory of MemSize bytes and its callers *)

MemWrite == \E a \in Addresses, data \in DataArrays : Write(a, data)
MemAddListener == \E a \in Addresses : AddListener(a, ListenerCount + 1)
MemReadByte == \E a \in Addresses : ReadByte(a)
MemReadWord == \E a \in Addresses : ReadWord(a)
MemClear == Clear

InitMem == InitMemory(MemSize) /\ InitAssembler /\ InitSplitter /\ InitTokenizer /\ InitDirective /\ InitHardware

NextMem ==
    \/ MemWrite /\ UNCHANGED asmVars /\ UNCHANGED <<outputs, tokVars, dirVars, hwVars>>
    \/ MemAddListener /\ UNCHANGED asmVars /\ UNCHANGED <<outputs, tokVars, dirVars, hwVars>>
    \/ MemReadByte /\ UNCHANGED asmVars /\ UNCHANGED <<outputs, tokVars, dirVars, hwVars>>
    \/ MemReadWord /\ UNCHANGED asmVars /\ UNCHANGED <<outputs, tokVars, dirVars, hwVars>>
    \/ MemClear /\ UNCHANGED asmVars /\ UNCHANGED <<outputs, tokVars, dirVars, hwVars>>

SpecMem == InitMem /\ [][NextMem]_vars

---------------------------------------------------------------------------
(* SpecWord: a Memory of WordMemSize bytes that is written and read back *)

WordByteVals == {0, 255}
WordAddresses == -1 .. WordMemSize + 1
WordDataArrays ==
    UNION {[1..n -> WordByteVals] : n \in 0..MaxData}
        \cup {<<1, 2, 3, 4>>, <<255, 0, 255, 255>>}

WordWrite == \E a \in WordAddresses, data \in WordDataArrays : Write(a, data)
WordReadByte == \E a \in WordAddresses : ReadByte(a)
WordReadWord == \E a \in WordAddresses : ReadWord(a)

InitWord == InitMemory(WordMemSize) /\ InitAssembler /\ InitSplitter /\ InitTokenizer /\ InitDirective /\ InitHardware

NextWord ==
    \/ WordWrite /\ UNCHANGED asmVars /\ UNCHANGED <<outputs, tokVars, dirVars, hwVars>>
    \/ WordReadByte /\ UNCHANGED asmVars /\ UNCHANGED <<outputs, tokVars, dirVars, hwVars>>
    \/ WordReadWord /\ UNCHANGED asmVars /\ UNCHANGED <<outputs, tokVars, dirVars, hwVars>>

SpecWord == InitWord /\ [][NextWord]_vars

---------------------------------------------------------------------------
(* SpecSeg: the layout passes and Stage 2 on sources of labels, segment    *)
(* switches and data directives                                            *)

SegLines ==
    {LabelLine("msg"), LabelLine("loop"),
     Stmt("nop", <<>>),
     Stmt(".word", <<Num(2)>>),
     Stmt(".asciiz", <<Str(<<"h", "i">>)>>),
     Stmt(".data", <<>>),
     Stmt(".text", <<>>)}

SegSources == UNION {[1..n -> SegLines] : n \in 0..MaxLines}

InitSeg ==
    /\ InitMemory(MIPS_MEMORY_SIZE)
    /\ InitSplitter
    /\ InitTokenizer
    /\ InitDirective /\ InitHardware
    /\ instructions \in SegSources
    /\ symbolTable = (".text" :> 0) @@ (".data" :> 2048)
    /\ segment = ".text"
    /\ layout = <<>>
    /\ resolved = <<>>
    /\ machineCode = <<>>
    /\ address = 0
    /\ ret = 0
    /\ error = "none"
    /\ pc = "parsed"

NextSeg ==
    \/ Validate /\ UNCHANGED <<outputs, tokVars, dirVars, hwVars>>
    \/ BuildSymbolTable /\ UNCHANGED <<outputs, tokVars, dirVars, hwVars>>
    \/ ResolveStage1 /\ UNCHANGED <<outputs, tokVars, dirVars, hwVars>>
    \/ ResolveStage2 /\ UNCHANGED <<outputs, tokVars, dirVars, hwVars>>

SpecSeg == InitSeg /\ [][NextSeg]_vars

---------------------------------------------------------------------------
(* SpecDir: one AssemblerDirective as a pass uses it: built at the         *)
(* location counter, asked for its forward offset, then executed, on a     *)
(* memory that an earlier write may have filled                            *)

\* the directives, each with arguments its validate() accepts
DirInputs ==
    {<<".align", <<Num(n)>> >> : n \in 0..MaxAlign}
    \cup {<<".space", <<Num(n)>> >> : n \in 0..MaxAlign}
    \cup {<<".ascii", <<Str(<<"h", "i">>)>> >>,
          <<".ascii", <<Str(<<"\\", "n">>)>> >>,
          <<".asciiz", <<Str(<<"h", "i">>)>> >>,
          <<".asciiz", <<Str(<<>>)>> >>,
          <<".byte", <<Num(1), Num(2)>> >>,
          <<".half", <<Num(258)>> >>,
          <<".word", <<Num(2)>> >>,
          <<".float", <<Num(1)>> >>,
          <<".double", <<Num(1)>> >>,
          <<".data", <<>> >>,
          <<".text", <<>> >>}

\* the data of the earlier write
FillData == {<<255>>, <<255, 255, 255, 255>>}

\* an earlier memory.write leaves bytes in the memory
DirFill ==
    /\ pc = "idle"
    /\ \E a \in 0..MaxCounter, data \in FillData : Write(a, data)
    /\ pc' = "filled"
    /\ UNCHANGED <<instructions, symbolTable, segment, layout, resolved, machineCode,
                   address, ret, error>>
    /\ UNCHANGED <<outputs, tokVars, dirVars, hwVars>>

\* new AssemblerDirective(this, command, args, locationCounter[segment])
DirConstruct ==
    /\ pc \in {"idle", "filled"}
    /\ \E input \in DirInputs, c \in 0..MaxCounter :
          /\ ~directiveValidateThrows(input[1], input[2])
          /\ directive' = [op |-> input[1], args |-> input[2], locationCounter |-> c]
          /\ counter' = c
    /\ pc' = "constructed"
    /\ UNCHANGED <<instructions, symbolTable, segment, layout, resolved, machineCode,
                   address, ret, error>>
    /\ UNCHANGED <<outputs, tokVars, memVars, forwardOffset, hwVars>>

\* locationCounter[segment] += directive.calculateForwardOffset()
DirAdvance ==
    /\ pc = "constructed"
    /\ forwardOffset' =
          calculateForwardOffset(directive.op, directive.args, directive.locationCounter)
    /\ counter' = Plus(counter, forwardOffset')
    /\ pc' = "advanced"
    /\ UNCHANGED <<instructions, symbolTable, segment, layout, resolved, machineCode,
                   address, ret, error>>
    /\ UNCHANGED <<outputs, tokVars, memVars, directive, hwVars>>

\* directive.execute()
DirExecute ==
    /\ pc = "advanced"
    /\ LET w == execute(directive.op, directive.args, directive.locationCounter,
                        MEMORY_SIZE, memory, listeners)
       IN  /\ memory' = w.memory
           /\ calls' = w.calls
           /\ thrown' = w.thrown
    /\ lastOp' = IF directive.op \in WritingDirectives
                 THEN Call("write", directive.locationCounter,
                           writtenBytes(directive.op, directive.args))
                 ELSE lastOp
    /\ pc' = "executed"
    /\ UNCHANGED <<MEMORY_SIZE, listeners, result>>
    /\ UNCHANGED <<instructions, symbolTable, segment, layout, resolved, machineCode,
                   address, ret, error>>
    /\ UNCHANGED <<outputs, tokVars, dirVars, hwVars>>

InitDir ==
    InitMemory(MIPS_MEMORY_SIZE) /\ InitAssembler /\ InitSplitter /\ InitTokenizer /\ InitDirective /\ InitHardware

NextDir ==
    \/ DirFill
    \/ DirConstruct
    \/ DirAdvance
    \/ DirExecute

SpecDir == InitDir /\ [][NextDir]_vars

---------------------------------------------------------------------------
(* SpecTok: Tokenizer.parse on one instruction *)

\* the text of the operation
TokOperations == {<<"a", "d", "d">>, <<"l", "w">>, <<"b", "e", "q">>, <<"i", "n", "v", "a", "l", "i", "d">>}
\* the separators before an operand
TokSeparators == {<<" ">>, <<",", " ">>}
\* the text of an operand
TokOperandTexts ==
    {<<"$", "t", "0">>,
     <<"$", "s", "0">>,
     <<"$", "q">>,
     <<"4">>,
     <<"-", "4">>,
     <<"n", "a", "m", "e">>,
     <<"i", "n", "s", "t", "r", "u", "c", "t", "i", "o", "n">>,
     <<"n", "a", "m", "e", "(", "$", "s", "0", ")">>,
     <<"-", "4", "(", "$", "s", "0", ")">>,
     <<"(", "$", "s", "0", ")">>,
     <<"4", "(", "s", "0", ")">>,
     <<"4", "(", " ", "$", "s", "0", ")">>,
     <<"4", "(", "$", "s", "0">>,
     <<"4", "(", "$", "q", ")">>}

\* the instructions: an operation and up to MaxOperands operands
RECURSIVE TokInstructions(_)
TokInstructions(n) ==
    IF n = 0 THEN TokOperations
    ELSE TokInstructions(n - 1) \cup
         {s \o sep \o text : s \in TokInstructions(n - 1), sep \in TokSeparators,
                              text \in TokOperandTexts}

\* a caller calls Tokenizer.parse(instruction)
Tokenize ==
    /\ ast.state = "pending"
    /\ ast' = TokenizerParse(instruction)
    /\ UNCHANGED <<instruction, memVars, asmVars, outputs, dirVars, hwVars>>

InitTok ==
    /\ InitMemory(MIPS_MEMORY_SIZE)
    /\ InitAssembler
    /\ InitSplitter
    /\ InitDirective /\ InitHardware
    /\ instruction \in TokInstructions(MaxOperands)
    /\ ast = [state |-> "pending", ast |-> buildAST(<<>>)]

NextTok == Tokenize

SpecTok == InitTok /\ [][NextTok]_vars

---------------------------------------------------------------------------
(* SpecEnc: one R arithmetic instruction through the encoder and the       *)
(* InstructionSplitter                                                     *)

RegisterNumbers == 0..31

\* the raw name `$N` of register number n
RawName(n) == CHOOSE r \in DOMAIN MIPS_REGISTERS : MIPS_REGISTERS[r] = n

\* InstructionSplitter.update() with the encoded word on its input
SplitterUpdate ==
    /\ pc = "encoded"
    /\ outputs' = splitInstruction(machineCode[1])
    /\ pc' = "decoded"
    /\ UNCHANGED <<instructions, symbolTable, segment, layout, resolved, machineCode,
                   address, ret, error>>
    /\ UNCHANGED memVars
    /\ UNCHANGED <<tokVars, dirVars, hwVars>>

InitEnc ==
    /\ InitMemory(MIPS_MEMORY_SIZE)
    /\ InitSplitter
    /\ InitTokenizer
    /\ InitDirective /\ InitHardware
    /\ \E op \in R_ARITHMETIC, rd \in RegisterNumbers, rs \in RegisterNumbers,
          rt \in RegisterNumbers :
          resolved = <<Stmt(op, <<Reg(RawName(rd)), Reg(RawName(rs)), Reg(RawName(rt))>>)>>
    /\ instructions = resolved
    /\ symbolTable = (".text" :> 0) @@ (".data" :> 2048)
    /\ segment = ".text"
    /\ layout = <<>>
    /\ machineCode = <<>>
    /\ address = 0
    /\ ret = 0
    /\ error = "none"
    /\ pc = "stage3"

NextEnc ==
    \/ AssembleInstructions /\ UNCHANGED <<outputs, tokVars, dirVars, hwVars>>
    \/ SplitterUpdate

SpecEnc == InitEnc /\ [][NextEnc]_vars

---------------------------------------------------------------------------
(* SpecImm: one load/store without a base register, or one shift by a      *)
(* constant, through the encoder and the InstructionSplitter                *)

\* the offsets of the load/store instructions
ImmOffsets == {0, 4, 2048, 32767, 32768, 65535, 65540, -4}
\* the shift amounts of the shift instructions
ShiftAmounts == {0, 1, 5, 31, 32, 33, 64, -1}

\* the instructions as Stage 3 hands them to the encoder
ImmLines ==
    {Stmt(op, <<Reg(RawName(rt)), Num(offset)>>) :
        op \in LOAD_STORE, rt \in RegisterNumbers, offset \in ImmOffsets}
    \cup
    {Stmt(op, <<Reg(RawName(rd)), Reg(RawName(rt)), Num(shamt)>>) :
        op \in SHIFT, rd \in RegisterNumbers, rt \in {0, 9, 31}, shamt \in ShiftAmounts}

InitImm ==
    /\ InitMemory(MIPS_MEMORY_SIZE)
    /\ InitSplitter
    /\ InitTokenizer
    /\ InitDirective /\ InitHardware
    /\ \E line \in ImmLines : resolved = <<line>>
    /\ instructions = resolved
    /\ symbolTable = (".text" :> 0) @@ (".data" :> 2048)
    /\ segment = ".text"
    /\ layout = <<>>
    /\ machineCode = <<>>
    /\ address = 0
    /\ ret = 0
    /\ error = "none"
    /\ pc = "stage3"

NextImm ==
    \/ AssembleInstructions /\ UNCHANGED <<outputs, tokVars, dirVars, hwVars>>
    \/ SplitterUpdate

SpecImm == InitImm /\ [][NextImm]_vars

---------------------------------------------------------------------------
(* SpecExp: one sge or sgt through Stage 2 and the expansion of Stage 3 *)

ExpLines ==
    {Stmt(op, <<Reg(RawName(a0)), Reg(RawName(a1)), Reg(RawName(a2))>>) :
        op \in {"sge", "sgt"}, a0 \in RegisterNumbers, a1 \in RegisterNumbers,
        a2 \in RegisterNumbers}

InitExp ==
    /\ InitMemory(MIPS_MEMORY_SIZE)
    /\ InitSplitter
    /\ InitTokenizer
    /\ InitDirective /\ InitHardware
    /\ \E line \in ExpLines : instructions = <<line>>
    /\ symbolTable = (".text" :> 0) @@ (".data" :> 2048)
    /\ segment = ".text"
    /\ layout = <<>>
    /\ resolved = <<>>
    /\ machineCode = <<>>
    /\ address = 0
    /\ ret = 0
    /\ error = "none"
    /\ pc = "stage1"

NextExp ==
    \/ ResolveStage2 /\ UNCHANGED <<outputs, tokVars, dirVars, hwVars>>
    \/ ResolveStage3 /\ UNCHANGED <<outputs, tokVars, dirVars, hwVars>>

SpecExp == InitExp /\ [][NextExp]_vars

---------------------------------------------------------------------------
(* SpecAlias: one instruction written with register aliases and raw names, *)
(* through Stage 2, Stage 3 and the encoder                                *)

\* every spelling of a register: the aliases and the raw names
RegisterNames == (DOMAIN REGISTER_UNALIAS) \cup (DOMAIN MIPS_REGISTERS)

\* the spellings the other operands take while one operand ranges over all
OtherNames == {"$t1", "$9", "$sp", "$29"}

OperandNames ==
    (RegisterNames \X OtherNames \X OtherNames)
    \cup (OtherNames \X RegisterNames \X OtherNames)
    \cup (OtherNames \X OtherNames \X RegisterNames)

\* one instruction of every class of the encoder and of the pseudo-instructions
AliasLines(x, y, z) ==
    {Stmt("add", <<Reg(x), Reg(y), Reg(z)>>),
     Stmt("sllv", <<Reg(x), Reg(y), Reg(z)>>),
     Stmt("addi", <<Reg(x), Reg(y), Num(5)>>),
     Stmt("lw", <<Reg(x), MemNum(4, y)>>),
     Stmt("sw", <<Reg(x), MemLab("loop", y)>>),
     Stmt("lb", <<Reg(x), Reg(y), Num(4)>>),
     Stmt("beq", <<Reg(x), Reg(y), Lab("loop")>>),
     Stmt("bgez", <<Reg(x), Num(2)>>),
     Stmt("lui", <<Reg(x), Num(9)>>),
     Stmt("jr", <<Reg(x)>>),
     Stmt("jalr", <<Reg(x), Reg(y)>>),
     Stmt("sll", <<Reg(x), Reg(y), Num(3)>>),
     Stmt("li", <<Reg(x), Num(70000)>>),
     Stmt("move", <<Reg(x), Reg(y)>>),
     Stmt("blt", <<Reg(x), Reg(y), Num(2)>>),
     Stmt("not", <<Reg(x), Reg(y)>>)}

InitAlias ==
    /\ InitMemory(MIPS_MEMORY_SIZE)
    /\ InitSplitter
    /\ InitTokenizer
    /\ InitDirective /\ InitHardware
    /\ \E names \in OperandNames :
          \E line \in AliasLines(names[1], names[2], names[3]) : instructions = <<line>>
    /\ symbolTable = (".text" :> 0) @@ (".data" :> 2048) @@ ("loop" :> 8)
    /\ segment = ".text"
    /\ layout = <<>>
    /\ resolved = <<>>
    /\ machineCode = <<>>
    /\ address = 0
    /\ ret = 0
    /\ error = "none"
    /\ pc = "stage1"

NextAlias ==
    \/ ResolveStage2 /\ UNCHANGED <<outputs, tokVars, dirVars, hwVars>>
    \/ ResolveStage3 /\ UNCHANGED <<outputs, tokVars, dirVars, hwVars>>
    \/ AssembleInstructions /\ UNCHANGED <<outputs, tokVars, dirVars, hwVars>>

SpecAlias == InitAlias /\ [][NextAlias]_vars

---------------------------------------------------------------------------
(* Claims about the assembler pipeline (Spec) *)

\* how often a source defines a label
DefinitionCount(lines, label) ==
    Cardinality({i \in 1..Len(lines) : lines[i] = LabelLine(label)})

DefinedLabels(lines) == {lines[i].op : i \in {j \in 1..Len(lines) : isValidLabel(lines[j])}}

\* the final layout: a real instruction advances the counter of its segment by
\* 4, a pseudo-instruction by 4 * k, a directive by its forward offset
FinalLayoutStep(st, line) ==
    IF isValidLabel(line) THEN [st EXCEPT !.at = (line.op :> st.lc[st.segment]) @@ @]
    ELSE IF isDirectiveLine(line)
    THEN LET seg == IF isSegmentLine(line) THEN line.op ELSE st.segment
         IN  [st EXCEPT !.segment = seg,
                        !.lc[seg] = @ + calculateForwardOffset(line.op, line.args, @)]
    ELSE [st EXCEPT !.lc[st.segment] = @ + 4 * Len(expand(line))]

RECURSIVE FinalLayoutLoop(_, _)
FinalLayoutLoop(st, lines) ==
    IF lines = <<>> THEN st ELSE FinalLayoutLoop(FinalLayoutStep(st, Head(lines)), Tail(lines))

\* label |-> the location counter at its definition in the final layout
FinalLayout(lines) ==
    FinalLayoutLoop([segment |-> ".text", lc |-> StartCounters(symbolTable),
                     at |-> [l \in {} |-> 0]], lines).at

\* C1: after pass 1 and Stage 1 of resolveSymbols, the address of every label
\* (defined once, not .text or .data) is the location counter of its segment at
\* its definition in the final layout.
C1_LabelsAtFinalLayout ==
    pc = "stage1" =>
        \A label \in DefinedLabels(instructions) :
            DefinitionCount(instructions, label) = 1 =>
                symbolTable[label] = FinalLayout(instructions)[label]

\* the labels the operands of the instructions refer to
ReferencedLabels(lines) ==
    {lines[i].args[j].s :
        <<i, j>> \in {<<k, l>> \in (1..Len(lines)) \X (1..3) :
                        /\ lines[k].kind = "stmt"
                        /\ ~isMIPSAssemblerDirective(lines[k].op)
                        /\ l <= Len(lines[k].args)
                        /\ \/ lines[k].args[l].t = "lab"
                           \/ lines[k].args[l].t = "mem" /\ lines[k].args[l].s /= ""}}

\* C2: pass 2 raises 'Unknown label' only for a name that is absent from the
\* symbol table; a label in the table, also one at address 0, is replaced by
\* its address (`loop: beq $t0, $t2, loop` assembles to 0x110A0000).
C2_UnknownLabelOnlyWhenAbsent ==
    /\ (pc = "failed" /\ error = "Unknown label") =>
           \E label \in ReferencedLabels(instructions) : label \notin DOMAIN symbolTable
    /\ (pc = "encoded"
          /\ instructions = <<LabelLine("loop"),
                              Stmt("beq", <<Reg("$t0"), Reg("$t2"), Lab("loop")>>)>>) =>
           machineCode = <<W(4362, 0)>>

\* the pseudo mnemonics
PseudoMnemonics ==
    {"abs", "blt", "bgt", "ble", "bge", "beqz", "neg", "negu", "not", "li", "la", "move",
     "sge", "sgt"}

\* C3: the list resolveSymbols returns holds only real instructions: no label
\* line, no directive line and no pseudo mnemonic.
C3_OnlyRealInstructions ==
    pc = "stage3" =>
        \A i \in 1..Len(resolved) :
            /\ resolved[i].kind = "stmt"
            /\ ~isMIPSAssemblerDirective(resolved[i].op)
            /\ resolved[i].op \notin PseudoMnemonics

\* C4: after assemble(source, base) succeeds with base the .text base, the
\* i-th real instruction of the text segment is stored at base + 4 * i, the
\* address the location counter gave it when the label addresses were computed,
\* also with size-reserving directives inside the text segment.
C4_LayoutStable ==
    (pc = "done" /\ address = symbolTable[".text"]) =>
        \A i \in 1..Len(layout) :
            layout[i].segment = ".text" => layout[i].address = address + 4 * (i - 1)

\* C5: pass 1 raises an error when a label other than .text and .data is
\* defined a second time, so it never completes on such a source.
C5_RedefinitionIsError ==
    pc = "pass1" =>
        \A label \in DefinedLabels(instructions) : DefinitionCount(instructions, label) <= 1

\* the index in machineCode of the word loaded at address a
WordIndex(a) == (a - address) \div 4 + 1

\* C6: when assemble(source, base) returns, it returns base, and
\* memory.readWord(base + 4 * i) is the i-th encoded word, bit 31 of the word
\* being the most significant bit of the byte at the lowest address.
C6_LoadedWordsReadBack ==
    pc = "done" =>
        /\ ret = address
        /\ lastOp.name = "readWord" =>
              thrown = "none" /\ result.word = machineCode[WordIndex(lastOp.address)]
        /\ \A i \in 1..Len(machineCode) :
              /\ WordAt(memory, address + 4 * (i - 1)) = machineCode[i]
              /\ ByteAt(memory, address + 4 * (i - 1)) = machineCode[i].hi \div 256

\* C6 witness: `nop / loop: / beq $t0, $t2, loop` was loaded and its second
\* word, 0x110A0004, read back
C6_Witness ==
    /\ pc = "done"
    /\ lastOp.name = "readWord" /\ lastOp.address = address + 4
    /\ result.word = W(4362, 4)
    /\ ByteAt(memory, address + 4) = 17

---------------------------------------------------------------------------
(* Claims about the encoder (SpecAlias, SpecEnc) *)

\* the canonical `$N` spelling of a register
CanonicalName(r) == IF r \in DOMAIN REGISTER_UNALIAS THEN REGISTER_UNALIAS[r] ELSE r

CanonicalToken(tok) ==
    IF tok.t = "reg" THEN Reg(CanonicalName(tok.s))
    ELSE IF tok.t = "mem" THEN [tok EXCEPT !.b = CanonicalName(tok.b)]
    ELSE tok

\* the source with every alias replaced by its canonical form
CanonicalLines(lines) ==
    [i \in 1..Len(lines) |->
        [lines[i] EXCEPT !.args = [j \in 1..Len(lines[i].args) |->
                                      CanonicalToken(lines[i].args[j])]]]

\* the words Stage 2, Stage 3 and the encoder give for lines
WordsOf(lines) ==
    assembleInstructions(
        stage3(stage2(".text", symbolTable, lines, MEMORY_SIZE, memory, listeners).resolved))

\* C7: an instruction written with aliases and raw names in any operand
\* position, the base of a memory operand included, assembles, and to the same
\* words as the instruction with every alias replaced by its canonical $N.
C7_AliasEquivalence ==
    /\ pc /= "failed"
    /\ pc = "encoded" =>
          /\ WordsOf(CanonicalLines(instructions)).error = "none"
          /\ machineCode = WordsOf(CanonicalLines(instructions)).words

\* C7 witness: `lw $t0, 4($sp)`, aliases in the target and the memory base,
\* was encoded as 0x8FA80004
C7_Witness ==
    /\ pc = "encoded"
    /\ instructions = <<Stmt("lw", <<Reg("$t0"), MemNum(4, "$sp")>>)>>
    /\ machineCode = <<W(36776, 4)>>

---------------------------------------------------------------------------
(* Claims about the Memory component (SpecMem) *)

OutOfBounds(a, length) == a < 0 \/ a + length > MEMORY_SIZE

\* C9: a write(address, data) with address < 0 or address + data.length > SIZE
\* throws, invokes no listener and changes no byte; a write that ends at or
\* before SIZE succeeds and stores its data; readByte and readWord at an
\* address outside 0..SIZE-1 throw.
C9_OutOfBoundsThrows ==
    /\ [](/\ lastOp.name = "write" =>
               IF OutOfBounds(lastOp.address, Len(lastOp.data))
               THEN thrown /= "none" /\ calls = <<>>
               ELSE thrown = "none"
                    /\ \A i \in 1..Len(lastOp.data) :
                          ByteAt(memory, lastOp.address + i - 1) = lastOp.data[i]
          /\ (lastOp.name \in {"readByte", "readWord"}
                /\ (lastOp.address < 0 \/ lastOp.address > MEMORY_SIZE - 1))
              => thrown /= "none")
    /\ [][thrown' /= "none" => memory' = memory /\ listeners' = listeners]_vars

\* C9 witness: a write was refused on a memory that holds data and listeners
C9_Witness ==
    /\ lastOp.name = "write" /\ thrown = "Error"
    /\ memory /= ZeroMemory /\ lastOp.address \in DOMAIN listeners

\* the listeners write(a, data) invoked are those the memory holds at a, once
\* each and in order, with the written data, the bytes being stored already
NotifiedOnWrite ==
    (lastOp.name = "write" /\ thrown = "none") =>
        /\ Len(calls) = Len(ListenersAt(listeners, lastOp.address))
        /\ \A i \in 1..Len(calls) :
              /\ calls[i].fn = listeners[lastOp.address][i]
              /\ calls[i].data = lastOp.data
              /\ \A j \in 1..Len(lastOp.data) :
                    ByteAt(calls[i].mem, lastOp.address + j - 1) = lastOp.data[j]

\* a listener the memory holds at a stays there
StaysRegistered ==
    \A a \in DOMAIN listeners :
        /\ a \in DOMAIN listeners'
        /\ SubSeq(listeners'[a], 1, Len(listeners[a])) = listeners[a]

OnlyHeldListenersInvoked ==
    lastOp'.name = "write" =>
        \A i \in 1..Len(calls') :
            \E j \in 1..Len(ListenersAt(listeners, lastOp'.address)) :
                calls'[i].fn = listeners[lastOp'.address][j]

\* clear() leaves every byte zero and no listener registered
ClearedByClear ==
    lastOp'.name = "clear" =>
        /\ \A a \in 0..(MEMORY_SIZE' - 1) : ByteAt(memory', a) = 0
        /\ \A a \in Addresses : ListenersAt(listeners', a) = <<>>

\* the first call after clear(): a read returns 0, a write invokes no listener
AfterClear ==
    lastOp.name = "clear" =>
        /\ (lastOp'.name = "readByte" /\ thrown' = "none") => result'.byte = 0
        /\ (lastOp'.name = "readWord" /\ thrown' = "none") => result'.word = W(0, 0)
        /\ lastOp'.name = "write" => calls' = <<>>

WriteStoresExactly ==
    (lastOp'.name = "write" /\ thrown' = "none") =>
        \A x \in 0..(MEMORY_SIZE - 1) :
            ByteAt(memory', x) =
                IF x >= lastOp'.address /\ x < lastOp'.address + Len(lastOp'.data)
                THEN lastOp'.data[x - lastOp'.address + 1]
                ELSE ByteAt(memory, x)

\* a read that follows a successful write returns what was written
ReadsWhatWasWritten ==
    (lastOp.name = "write" /\ thrown = "none" /\ thrown' = "none") =>
        LET a == lastOp.address
            data == lastOp.data
            i == lastOp'.address - a
        IN  /\ (lastOp'.name = "readByte" /\ i >= 0 /\ i < Len(data)) =>
                    result'.byte = data[i + 1]
            /\ (lastOp'.name = "readWord" /\ i = 0 /\ Len(data) >= 4) =>
                    result'.word = W(data[1] * 256 + data[2], data[3] * 256 + data[4])
            /\ (lastOp'.name = "readWord" /\ i = 0 /\ data = <<1, 2, 3, 4>>) =>
                    result'.word = W(258, 772)

---------------------------------------------------------------------------
(* Claims about the Tokenizer (SpecTok) *)

\* the spelling of the mnemonics and register names the instructions use
MnemonicSpelling ==
    ("add" :> <<"a", "d", "d">>) @@ ("lw" :> <<"l", "w">>) @@ ("beq" :> <<"b", "e", "q">>) @@
    ("invalid" :> <<"i", "n", "v", "a", "l", "i", "d">>)
RegisterSpelling ==
    ("$t0" :> <<"$", "t", "0">>) @@ ("$s0" :> <<"$", "s", "0">>) @@ ("$q" :> <<"$", "q">>)

CountOf(s, c) == Cardinality({i \in 1..Len(s) : s[i] = c})

\* character i of s lies inside parentheses
InsideParentheses(s, i) ==
    CountOf(SubSeq(s, 1, i - 1), "(") > CountOf(SubSeq(s, 1, i - 1), ")")

\* character i of s is a comma or a space outside parentheses
SplitsAt(s, i) == s[i] \in {" ", ","} /\ ~InsideParentheses(s, i)

\* the tokens of s: the maximal runs of characters between the commas and
\* spaces outside parentheses
RECURSIVE SplitOutsideParentheses(_, _)
SplitOutsideParentheses(s, from) ==
    IF from > Len(s) THEN <<>>
    ELSE IF SplitsAt(s, from) THEN SplitOutsideParentheses(s, from + 1)
    ELSE LET ends == {j \in from..Len(s) : j = Len(s) \/ SplitsAt(s, j + 1)}
             to == CHOOSE j \in ends : \A x \in ends : j <= x
         IN  <<SubSeq(s, from, to)>> \o SplitOutsideParentheses(s, to + 1)

UnknownMnemonic(s) ==
    LET tokens == SplitOutsideParentheses(s, 1)
    IN  tokens = <<>> \/
        ~\E name \in DOMAIN MnemonicSpelling :
            MnemonicSpelling[name] = tokens[1] /\ name \in MIPS_CORE_INSTRUCTIONS

UnmatchedParentheses(s) == CountOf(s, "(") /= CountOf(s, ")")

UnrecognizedRegister(s) ==
    LET tokens == SplitOutsideParentheses(s, 1)
    IN  \E i \in 2..Len(tokens) :
            /\ Head(tokens[i]) = "$"
            /\ ~\E name \in DOMAIN RegisterSpelling :
                    RegisterSpelling[name] = tokens[i] /\ isValidRegister(name)

\* C13: Tokenizer.parse throws instead of returning an AST when the
\* instruction is invalid: its mnemonic is unknown, its parentheses are
\* unmatched, or a token starting with `$` is not a recognized register.
C13_InvalidInstructionThrows ==
    (ast.state /= "pending"
        /\ (UnknownMnemonic(instruction) \/ UnmatchedParentheses(instruction)
                \/ UnrecognizedRegister(instruction)))
    => ast.state = "thrown"

\* the operand the classification rules give a token
Classified(token) ==
    IF CountOf(token, "(") > 0
    THEN LET open == CHOOSE i \in 1..Len(token) :
                        token[i] = "(" /\ CountOf(SubSeq(token, 1, i - 1), "(") = 0
             closes == {i \in (open + 1)..Len(token) : token[i] = ")"}
             close == IF closes = {} THEN Len(token) + 1
                      ELSE CHOOSE i \in closes : \A x \in closes : i <= x
             offset == SubSeq(token, 1, open - 1)
             base == trim(SubSeq(token, open + 1, close - 1))
         IN  MemoryOperand(IF offset = <<>> THEN NumberValue(0)
                           ELSE IF Number(offset).nan THEN StringValue(offset)
                           ELSE NumberValue(Number(offset).n),
                           base)
    ELSE IF Head(token) = "$" THEN RegisterOperand(token)
    ELSE IF ~Number(token).nan THEN ImmediateOperand(NumberValue(Number(token).n))
    ELSE ImmediateOperand(StringValue(token))

\* C14: Tokenizer.parse returns the first token as the operation and
\* classifies every further token: commas and spaces split tokens except
\* inside parentheses; a token containing `(` is a memory operand
\* offset(base) whose offset is 0 when empty, an integer when numeric and a
\* label otherwise; a token starting with `$` is a register operand; a token
\* that parses as a number is a numeric immediate; any other token is a label
\* immediate. The instructions are those with a known mnemonic, matched
\* parentheses and recognized registers.
C14_TokensClassified ==
    (ast.state = "returned"
        /\ ~UnknownMnemonic(instruction) /\ ~UnmatchedParentheses(instruction)
        /\ ~UnrecognizedRegister(instruction)) =>
        LET tokens == SplitOutsideParentheses(instruction, 1)
        IN  /\ ast.ast.operation = StringValue(tokens[1])
            /\ Len(ast.ast.operands) = Len(tokens) - 1
            /\ \A i \in 1..Len(ast.ast.operands) :
                    ast.ast.operands[i] = Classified(tokens[i + 1])


---------------------------------------------------------------------------
(* Claims about directives in Stage 2 (SpecSeg) *)

\* the bytes a data directive stores
DirectiveBytes(line) ==
    CASE line.op = ".word" -> Uint32ArrayBytes(line.args)
      [] line.op = ".half" -> Uint16ArrayBytes(line.args)
      [] line.op = ".byte" -> Uint8ArrayBytes(line.args)
      [] line.op = ".asciiz" -> Append(convertToAsciiArray(unquoted(line.args)), 0)
      [] line.op = ".ascii" -> convertToAsciiArray(unquoted(line.args))

DataDirectives == {".word", ".half", ".byte", ".asciiz", ".ascii"}

\* C15: in Stage 2 every directive executes at the address the symbol-table
\* passes assigned to its position: for every label defined (once)
\* immediately before a data directive, the directive's bytes start at the
\* label's symbol-table address, for any order and number of .text / .data
\* switches; `.data` / `msg: .asciiz "hi"` stores 0x68 0x69 0x00 at the data
\* base and msg equals the data base.
C15_DirectivesAtLabelAddress ==
    pc = "stage2" =>
        /\ \A i \in 1..(Len(instructions) - 1) :
              (/\ isValidLabel(instructions[i])
               /\ DefinitionCount(instructions, instructions[i].op) = 1
               /\ instructions[i + 1].kind = "stmt"
               /\ instructions[i + 1].op \in DataDirectives)
              => LET bytes == DirectiveBytes(instructions[i + 1])
                 IN  \A j \in 1..Len(bytes) :
                        ByteAt(memory, symbolTable[instructions[i].op] + j - 1) = bytes[j]
        /\ instructions = <<Stmt(".data", <<>>), LabelLine("msg"),
                            Stmt(".asciiz", <<Str(<<"h", "i">>)>>)>>
              => /\ symbolTable["msg"] = symbolTable[".data"]
                 /\ ByteAt(memory, symbolTable[".data"]) = 104
                 /\ ByteAt(memory, symbolTable[".data"] + 1) = 105
                 /\ ByteAt(memory, symbolTable[".data"] + 2) = 0


---------------------------------------------------------------------------
(* Claims about the encoder on immediates (SpecImm) *)

\* C16: for a load/store that reaches the encoder with two tokens
\* (`op rt offset`, no base register) the base is `$0`: the rs field [25:21]
\* is 0, the rt field [20:16] is the number of the named register and
\* imm16 = offset & 0xFFFF.
C16_NoBaseLoadStore ==
    (pc = "decoded" /\ resolved[1].op \in LOAD_STORE /\ Len(resolved[1].args) = 2) =>
        /\ outputs.opCode = opCode[resolved[1].op]
        /\ outputs.rs = 0
        /\ outputs.rt = MIPS_REGISTERS[resolved[1].args[1].s]
        /\ outputs.imm = resolved[1].args[2].n % 65536

\* C17: for sll, srl and sra with any integer shift amount imm the shamt
\* field [10:6] is imm & 0x1F, the rs field is 0, and the rt, rd and funct
\* fields are those of the operands and the table.
C17_ShiftAmountMasked ==
    (pc = "decoded" /\ resolved[1].op \in SHIFT) =>
        /\ outputs.opCode = 0
        /\ outputs.rs = 0
        /\ outputs.rd = MIPS_REGISTERS[resolved[1].args[1].s]
        /\ outputs.rt = MIPS_REGISTERS[resolved[1].args[2].s]
        /\ outputs.shamt = resolved[1].args[3].n % 32
        /\ outputs.funct = funct[resolved[1].op]


---------------------------------------------------------------------------
(* Claims about the expander (SpecExp) *)

\* C18: the expander rewrites `sge a0,a1,a2` to `slt $1,a2,a1` followed by
\* `xori a0,$1,1`, and `sgt a0,a1,a2` to the single instruction
\* `slt a0,a2,a1`, for all operand registers.
C18_SgeSgtExpansion ==
    pc = "stage3" =>
        LET a0 == instructions[1].args[1]
            a1 == instructions[1].args[2]
            a2 == instructions[1].args[3]
        IN  /\ instructions[1].op = "sge" =>
                    resolved = <<Stmt("slt", <<Reg("$1"), a2, a1>>),
                                 Stmt("xori", <<a0, Reg("$1"), Num(1)>>)>>
            /\ instructions[1].op = "sgt" =>
                    resolved = <<Stmt("slt", <<a0, a2, a1>>)>>


---------------------------------------------------------------------------
(* Claims about one directive (SpecDir) *)

\* C19: for every argument n the validator accepts for `.align` (a
\* non-negative integer) and every location counter c,
\* calculateForwardOffset returns an integer r with 0 <= r < max(n, 1) such
\* that c + r is a multiple of n (for n > 0), r = 0 when c is already
\* aligned, and the location counter stays a finite integer.
C19_AlignOffset ==
    (pc \in {"advanced", "executed"} /\ directive.op = ".align") =>
        LET n == parseInt32(directive.args[1])
            c == directive.locationCounter
            r == forwardOffset
        IN  /\ r /= NaN
            /\ r >= 0
            /\ r < (IF n > 1 THEN n ELSE 1)
            /\ n > 0 => (c + r) % n = 0
            /\ (n > 0 /\ c % n = 0) => r = 0
            /\ counter /= NaN
            /\ counter = c + r

\* execute() changes no byte outside the space the directive reserves, hands
\* memory.write exactly that many bytes at the recorded address, and writes
\* nothing for .float, .double, .space and .align
FrameOfExecute ==
    pc' = "executed" =>
        LET c == directive.locationCounter
        IN  /\ \A x \in (DOMAIN memory) \cup (DOMAIN memory') :
                  (x < c \/ x >= Plus(c, forwardOffset)) =>
                      ByteAt(memory', x) = ByteAt(memory, x)
            /\ directive.op \in WritingDirectives =>
                  /\ lastOp'.address = c
                  /\ Len(lastOp'.data) = forwardOffset
            /\ directive.op \in {".float", ".double", ".space", ".align"} =>
                  memory' = memory

\* C20: a directive's execute() changes no byte outside the range
\* [recorded address, recorded address + calculateForwardOffset()): the bytes
\* it writes are exactly the space it reserves (.ascii writes decoded-length
\* bytes, .asciiz one more), and .float, .double, .space and .align reserve
\* their space without writing.
C20_ExecuteWithinReservedSpace == [][FrameOfExecute]_vars

---------------------------------------------------------------------------
(* SpecReg: one instruction whose register references may be unknown,     *)
(* through the whole of assemble()                                        *)

\* register spellings: recognized raw names and aliases, and unknown ones
RegSpellings == {"$t0", "$9", "$zero", "$zz", "$32"}

\* offsets of the memory operands
RegOffsets == {0, 4}

\* the instructions: a register in a plain position or as the base of offset(base)
RegLines ==
    {Stmt(op, <<Reg(x), MemNum(n, y)>>) :
        op \in {"lw", "sw"}, x \in RegSpellings, y \in RegSpellings, n \in RegOffsets}
    \cup
    {Stmt("add", <<Reg(x), Reg(y), Reg(z)>>) :
        x \in RegSpellings, y \in RegSpellings, z \in RegSpellings}

InitReg ==
    /\ InitMemory(MIPS_MEMORY_SIZE)
    /\ InitSplitter
    /\ InitTokenizer
    /\ InitDirective /\ InitHardware
    /\ \E line \in RegLines : instructions = <<line>>
    /\ symbolTable = (".text" :> 0) @@ (".data" :> 2048)
    /\ segment = ".text"
    /\ layout = <<>>
    /\ resolved = <<>>
    /\ machineCode = <<>>
    /\ address = 0
    /\ ret = 0
    /\ error = "none"
    /\ pc = "parsed"

NextReg ==
    \/ Validate /\ UNCHANGED <<outputs, tokVars, dirVars, hwVars>>
    \/ BuildSymbolTable /\ UNCHANGED <<outputs, tokVars, dirVars, hwVars>>
    \/ ResolveStage1 /\ UNCHANGED <<outputs, tokVars, dirVars, hwVars>>
    \/ ResolveStage2 /\ UNCHANGED <<outputs, tokVars, dirVars, hwVars>>
    \/ ResolveStage3 /\ UNCHANGED <<outputs, tokVars, dirVars, hwVars>>
    \/ AssembleInstructions /\ UNCHANGED <<outputs, tokVars, dirVars, hwVars>>
    \/ Load /\ UNCHANGED <<outputs, tokVars, dirVars, hwVars>>

SpecReg == InitReg /\ [][NextReg]_vars

\* the register references of an instruction: plain operands and bases
RegisterReferences(line) ==
    {line.args[i].s : i \in {j \in 1..Len(line.args) : line.args[j].t = "reg"}}
    \cup {line.args[i].b : i \in {j \in 1..Len(line.args) : line.args[j].t = "mem"}}

\* C21: assemble fails with an error whenever an instruction holds a
\* register reference that is not a recognized name or alias, as a plain
\* operand or as the base of a memory operand: a call that returned had
\* only recognized register references.
C21_UnknownRegisterFails ==
    pc = "done" =>
        \A i \in 1..Len(instructions) :
            \A r \in RegisterReferences(instructions[i]) : isValidRegister(r)

---------------------------------------------------------------------------
(* SpecWire: one Wire of every size under setValue *)

\* the sizes of the wires
WireSizes == 1..32

\* the arguments of setValue, and the values a wire is constructed with
WireInputs == {-2147483647 - 1, -65536, -2, -1, 0, 1, 2, 3, 255, 256, 65535, 65536, 2147483647}

\* wire.setValue(value) on the one wire
WireSetValue(value) ==
    /\ wireValue' = [wireValue EXCEPT ![1] = setValue(wireSize[1], value)]
    /\ UNCHANGED <<instances, wireSize, registerValue, hasChanged, iteration, tickState>>

InitWire ==
    /\ InitMemory(MIPS_MEMORY_SIZE) /\ InitAssembler /\ InitSplitter
    /\ InitTokenizer /\ InitDirective
    /\ instances = <<>>
    /\ \E size \in WireSizes : wireSize = <<size>>
    /\ \E value \in WireInputs : value >= 0 /\ wireValue = <<setValue(wireSize[1], value)>>
    /\ registerValue = <<>>
    /\ hasChanged = FALSE
    /\ iteration = 0
    /\ tickState = "idle"

NextWire ==
    \E value \in WireInputs :
        WireSetValue(value) /\ UNCHANGED <<memVars, asmVars, outputs, tokVars, dirVars>>

SpecWire == InitWire /\ [][NextWire]_vars

\* v mod 2^W where 32-bit integers can hold it
ModuloOfSize(size, value) ==
    IF size <= 30 THEN value % (2 ^ size)
    ELSE IF size = 31 /\ value < 0 THEN (value + 2147483647) + 1
    ELSE value

\* C25: after Wire.setValue(v) on a wire of width W, for every W from 1 to
\* 32 and every integer v, getValue() returns v mod 2^W, a value in
\* [0, 2^W).
C25_SetValueMasks ==
    [][\A value \in WireInputs :
          WireSetValue(value) =>
              /\ wireValue'[1] >= 0
              /\ wireSize[1] <= 30 => wireValue'[1] < 2 ^ wireSize[1]
              /\ (value >= 0 \/ wireSize[1] <= 31) =>
                     wireValue'[1] = ModuloOfSize(wireSize[1], value)]_vars

---------------------------------------------------------------------------
(* hardware/componentBase: Component.doSingleClockCycle, one step per      *)
(* iteration of its while loop                                             *)

\* doSingleClockCycle is entered: hasChanged = true, i = 1
TickStart ==
    /\ tickState = "idle"
    /\ tickState' = "running"
    /\ hasChanged' = TRUE
    /\ iteration' = 1
    /\ UNCHANGED <<instances, wireSize, wireValue, registerValue>>

\* one iteration of while (hasChanged): update() on every instance in order
TickPass ==
    /\ tickState = "running"
    /\ hasChanged
    /\ iteration <= MaxIterations
    /\ LET st == forInstances(instances, 1, wireSize,
                              [wire |-> wireValue, value |-> registerValue,
                               hasChanged |-> FALSE, error |-> "none"])
       IN  /\ wireValue' = st.wire
           /\ registerValue' = st.value
           /\ hasChanged' = st.hasChanged
           /\ tickState' = IF st.error = "none" THEN "running" ELSE "threw"
    /\ iteration' = iteration + 1
    /\ UNCHANGED <<instances, wireSize>>

\* the while condition is false: doSingleClockCycle returns
TickReturn ==
    /\ tickState = "running"
    /\ ~hasChanged
    /\ tickState' = "returned"
    /\ UNCHANGED <<instances, wireSize, wireValue, registerValue, hasChanged, iteration>>

---------------------------------------------------------------------------
(* SpecTick: one doSingleClockCycle on the component graphs built from a   *)
(* menu of wired components, in every registration order                   *)

\* the wires of the graphs: two of one bit, four of 32 bits
TickWireSizes == <<1, 1, 32, 32, 32, 32>>

\* the wired components the graphs are made of
TickMenu ==
    {Component("NotGate", OnWire(1), NoConnector, NoConnector, OnWire(2), 0),
     Component("NotGate", OnWire(2), NoConnector, NoConnector, OnWire(1), 0),
     Component("NotGate", OnWire(1), NoConnector, NoConnector, OnWire(1), 0),
     Component("ZeroExtender", OnWire(1), NoConnector, NoConnector, OnWire(2), 0),
     Component("MUX", OnWire(3), Static(7), OnWire(2), OnWire(4), 0),
     Component("Adder", OnWire(4), Static(4), NoConnector, OnWire(5), 0),
     Component("Register", OnWire(5), NoConnector, NoConnector, OnWire(3), 0),
     Component("AndGate", OnWire(3), OnWire(4), NoConnector, OnWire(6), 0),
     Component("OrGate", OnWire(4), OnWire(6), NoConnector, OnWire(5), 0)}

\* Component._instances after construction: distinct components in any order
TickGraphs ==
    UNION {{g \in [1..n -> TickMenu] : \A i, j \in 1..n : i /= j => g[i] /= g[j]} :
           n \in 1..MaxComponents}

\* the random values wires and Registers are constructed with
TickWireValues ==
    {v \in [1..6 -> {0, 1, 5}] :
        \A w \in 1..6 : IF TickWireSizes[w] = 1 THEN v[w] \in {0, 1} ELSE v[w] \in {0, 5}}
TickRegisterValues == {0, 9}

InitTick ==
    /\ InitMemory(MIPS_MEMORY_SIZE) /\ InitAssembler /\ InitSplitter
    /\ InitTokenizer /\ InitDirective
    /\ instances \in TickGraphs
    /\ wireSize = TickWireSizes
    /\ wireValue \in TickWireValues
    /\ registerValue \in
           {r \in [1..Len(instances) -> TickRegisterValues] :
               \A k \in 1..Len(instances) : instances[k].kind /= "Register" => r[k] = 0}
    /\ hasChanged = FALSE
    /\ iteration = 0
    /\ tickState = "idle"

NextTick ==
    \/ TickStart /\ UNCHANGED <<memVars, asmVars, outputs, tokVars, dirVars>>
    \/ TickPass /\ UNCHANGED <<memVars, asmVars, outputs, tokVars, dirVars>>
    \/ TickReturn /\ UNCHANGED <<memVars, asmVars, outputs, tokVars, dirVars>>

SpecTick == InitTick /\ [][NextTick]_vars

\* the instances that are Registers
Registers == {k \in 1..Len(instances) : instances[k].kind = "Register"}

\* C22: a clock tick first calls update() on every component in
\* registration order, pass after pass, until a full pass reports no change,
\* and then every Register latches: after the tick the output of each
\* Register equals the input value it captured during the tick.
C22_RegistersLatchAfterFixpoint ==
    tickState = "returned" =>
        \A k \in Registers : getValue(instances[k].output, wireValue) = registerValue[k]

\* C23: a tick that does not converge is stopped by an iteration cap and
\* surfaced as an error, so doSingleClockCycle never iterates forever: after
\* MaxIterations iterations of its loop it is not about to start another.
C23_NonConvergingTickStopped ==
    tickState = "running" /\ hasChanged => iteration <= MaxIterations

\* the instances that compute their output from their inputs
Combinational == (1..Len(instances)) \ Registers

\* the wires a component reads
InputWires(c) == {x.wire : x \in {y \in {c.input1, c.input2, c.control} : y.kind = "wire"}}

\* the output of instance j is an input of instance k
Feeds(j, k) == instances[j].output.wire \in InputWires(instances[k])

\* a path of at most n combinational components leads from j to k
RECURSIVE FeedsWithin(_, _, _)
FeedsWithin(j, k, n) ==
    /\ n > 0
    /\ \/ Feeds(j, k)
       \/ \E m \in Combinational : Feeds(j, m) /\ FeedsWithin(m, k, n - 1)

\* every cycle of the graph passes through a Register
AcyclicCombinational == \A k \in Combinational : ~FeedsWithin(k, k, Len(instances))

\* no wire is written by two components
SingleDriver ==
    \A j, k \in 1..Len(instances) :
        j /= k => instances[j].output.wire /= instances[k].output.wire

\* the function of a combinational component, on the width of its output
FunctionOfInputs(c) ==
    LET in1 == getValue(c.input1, wireValue)
        in2 == getValue(c.input2, wireValue)
        f == CASE c.kind = "MUX" -> IF getValue(c.control, wireValue) = 0 THEN in1 ELSE in2
               [] c.kind = "Adder" -> add32(in1, in2)
               [] c.kind = "AndGate" -> bitAnd(in1, in2)
               [] c.kind = "OrGate" -> bitOr(in1, in2)
               [] c.kind = "NotGate" -> bitNot(in1)
               [] c.kind = "ZeroExtender" -> in1
    IN  setValue(wireSize[c.output.wire], f)

\* the tick ends within one pass per component and one more, and when it
\* has returned every combinational output is the function of its inputs
TickConverges ==
    /\ iteration <= Len(instances) + 2
    /\ tickState /= "threw"
    /\ tickState = "returned" =>
           \A k \in Combinational :
               getValue(instances[k].output, wireValue) = FunctionOfInputs(instances[k])

---------------------------------------------------------------------------
(* SpecChip: the branch path of SingleCycleMIPSChip as its constructor     *)
(* leaves it, under one doSingleClockCycle.  The instances are the         *)
(* components of the path, in their registration order.                    *)

\* the sizes of the connectors handed to Connector.connect for the branch
\* path, in the order of the constructor; a static value has no size to check
ChipBranchConnects ==
    <<[from |-> 32, to |-> 32],    \* signExtender.output -> SLL2.input
      [from |-> 32, to |-> 32],    \* PCAdder.output -> branchAdder.input1
      [from |-> 32, to |-> 32],    \* SLL2.output -> branchAdder.input2
      [from |-> 32, to |-> 32],    \* branchAdder.output -> branchMux.inputA
      [from |-> 32, to |-> 32],    \* branchAdder.output -> branchMux.inputB
      [from |-> 1, to |-> 32],     \* PCU.branch -> AND.input1
      [from |-> 1, to |-> 32],     \* ALU.output2 -> AND.input2
      [from |-> 32, to |-> 1],     \* AND.output -> branchMux.control
      [from |-> 32, to |-> 32],    \* PC.output -> PCAdder.input1
      [from |-> 32, to |-> 32]>>   \* 4 -> PCAdder.input2

\* the constructor reached connect number n and it returned
connected(n) ==
    \A m \in 1..n : ~connectThrows(ChipBranchConnects[m].from, ChipBranchConnects[m].to)

\* the connector connect number n leaves behind
Wired(n, connector) == IF connected(n) THEN connector ELSE NoConnector

\* the wires: 1 imm, 2 signExtender.output, 3 PCAdder.output, 4 SLL2.output,
\* 5 branchAdder.output, 6 PC.input, 7 PC.output, 8 PCU.branch, 9 ALU.output2,
\* 10 AND.output
ChipWireSizes == <<16, 32, 32, 32, 32, 32, 32, 1, 1, 32>>

\* signExtender, PCAdder, SLL2, branchAdder, branchMux and the AND gate
ChipInstances ==
    <<Component("ZeroExtender", OnWire(1), NoConnector, NoConnector, OnWire(2), 0),
      Component("Adder", Wired(9, OnWire(7)), Wired(10, Static(4)), NoConnector,
                Wired(2, OnWire(3)), 0),
      Component("ShiftLeft", Wired(1, OnWire(2)), NoConnector, NoConnector,
                Wired(3, OnWire(4)), 2),
      Component("Adder", Wired(2, OnWire(3)), Wired(3, OnWire(4)), NoConnector,
                Wired(4, OnWire(5)), 0),
      Component("MUX", Wired(4, OnWire(5)), Wired(5, OnWire(5)), Wired(8, OnWire(10)),
                OnWire(6), 0),
      Component("AndGate", Wired(6, OnWire(8)), Wired(7, OnWire(9)), NoConnector,
                Wired(8, OnWire(10)), 0)>>

\* the random values the wires are constructed with
ChipWireValues ==
    {<<imm, ext, pc4, sll, sum, next, pcOut, branch, zero, 0>> :
        imm \in {0, 1, 32767, 32768, 65535},
        ext \in {0, 8}, pc4 \in {0, 8}, sll \in {0, 8}, sum \in {0, 8}, next \in {0, 8},
        pcOut \in {0, 8}, branch \in {0, 1}, zero \in {0, 1}}

InitChip ==
    /\ InitMemory(MIPS_MEMORY_SIZE) /\ InitAssembler /\ InitSplitter
    /\ InitTokenizer /\ InitDirective
    /\ instances = ChipInstances
    /\ wireSize = ChipWireSizes
    /\ wireValue \in ChipWireValues
    /\ registerValue = [k \in 1..Len(ChipInstances) |-> 0]
    /\ hasChanged = FALSE
    /\ iteration = 0
    /\ tickState = "idle"

NextChip ==
    \/ TickStart /\ UNCHANGED <<memVars, asmVars, outputs, tokVars, dirVars>>
    \/ TickPass /\ UNCHANGED <<memVars, asmVars, outputs, tokVars, dirVars>>

SpecChip == InitChip /\ [][NextChip]_vars

\* imm16 sign-extended to 32 bits and shifted left by 2
BranchOffset(imm) == IF imm >= 32768 THEN (imm - 65536) * 4 ELSE imm * 4

\* C26: in the wired chip a tick reaches its fixpoint, and there the value
\* presented to the PC input is PC + 4 when (Branch AND ALU zero) is 0 and
\* PC + 4 + (sign-extended imm16 << 2) when it is 1, for every 16-bit
\* immediate.
C26_NextPcAtFixpoint ==
    /\ tickState /= "threw"
    /\ tickState = "returned" =>
           wireValue[6] = IF bitAnd(wireValue[8], wireValue[9]) = 0
                          THEN add32(wireValue[7], 4)
                          ELSE add32(add32(wireValue[7], 4), BranchOffset(wireValue[1]))

---------------------------------------------------------------------------
(* SpecCalls: assemble() called again and again on one Assembler instance *)

\* the symbol table of a new Assembler
FreshTable == (".text" :> 0) @@ (".data" :> 2048)

\* compile(source) on an Assembler whose symbol table is `table`: the error,
\* the words and the symbol table it leaves
compile(table, lines, size, mem, ls) ==
    IF validate(lines) /= "none"
    THEN [error |-> validate(lines), words |-> <<>>, table |-> table]
    ELSE LET built == buildSymbolTable(table, lines)
             s1 == stage1(built, lines)
             s2 == stage2(s1.segment, s1.table, lines, size, mem, ls)
             r == assembleInstructions(stage3(s2.resolved))
         IN  IF s2.error /= "none"
             THEN [error |-> s2.error, words |-> <<>>, table |-> s1.table]
             ELSE [error |-> r.error, words |-> r.words, table |-> s1.table]

\* the lines of the sources
CallLines ==
    {LabelLine("loop"),
     Stmt("nop", <<>>),
     Stmt("li", <<Reg("$t0"), Num(1)>>),
     Stmt("beq", <<Reg("$t0"), Reg("$t2"), Lab("loop")>>)}

CallSources == UNION {[1..n -> CallLines] : n \in 0..MaxCallLines}

\* the first assemble(source, 0) of the instance
AssembleFirst ==
    /\ pc = "idle"
    /\ \E source \in CallSources : Parse(source, 0)

\* a later assemble(source, 0) of the same instance: the fields of the
\* Assembler and the memory are as the earlier call left them
AssembleAgain ==
    /\ pc \in {"done", "failed"}
    /\ \A label \in DOMAIN symbolTable \ {".text", ".data"} : symbolTable[label] <= MaxStale
    /\ \E source \in CallSources : instructions' = source
    /\ address' = 0
    /\ error' = "none"
    /\ segment' = ".text"
    /\ layout' = <<>>
    /\ resolved' = <<>>
    /\ machineCode' = <<>>
    /\ pc' = "parsed"
    /\ UNCHANGED <<symbolTable, ret>>
    /\ UNCHANGED memVars

InitCalls == Init

NextCalls ==
    \/ AssembleFirst /\ UNCHANGED <<outputs, tokVars, dirVars, hwVars>>
    \/ AssembleAgain /\ UNCHANGED <<outputs, tokVars, dirVars, hwVars>>
    \/ Validate /\ UNCHANGED <<outputs, tokVars, dirVars, hwVars>>
    \/ BuildSymbolTable /\ UNCHANGED <<outputs, tokVars, dirVars, hwVars>>
    \/ ResolveStage1 /\ UNCHANGED <<outputs, tokVars, dirVars, hwVars>>
    \/ ResolveStage2 /\ UNCHANGED <<outputs, tokVars, dirVars, hwVars>>
    \/ ResolveStage3 /\ UNCHANGED <<outputs, tokVars, dirVars, hwVars>>
    \/ AssembleInstructions /\ UNCHANGED <<outputs, tokVars, dirVars, hwVars>>
    \/ Load /\ UNCHANGED <<outputs, tokVars, dirVars, hwVars>>

SpecCalls == InitCalls /\ [][NextCalls]_vars

\* what the same call does on a new Assembler
FreshOutcome == compile(FreshTable, instructions, MEMORY_SIZE, memory, listeners)

\* C27: the outcome of assemble(source, base), success or error, every
\* label address and the emitted words, depends only on source and base and
\* not on earlier assemble calls on the same instance: it is the outcome of
\* the same call on a new Assembler.
C27_OutcomeIndependentOfEarlierCalls ==
    /\ pc = "failed" => error = FreshOutcome.error
    /\ pc = "done" =>
           /\ FreshOutcome.error = "none"
           /\ machineCode = FreshOutcome.words
           /\ \A label \in DOMAIN FreshOutcome.table :
                  symbolTable[label] = FreshOutcome.table[label]

---------------------------------------------------------------------------
(* assemble() that throws, and the bytes of the memory, under Spec: the    *)
(* memory is all zero when assemble() is called                            *)

\* C28: when assemble(source, base) has thrown, the memory holds the bytes it
\* held before the call: no directive bytes and no instruction words
C28_ThrowLeavesMemoryUnchanged ==
    pc = "failed" => \A a \in DOMAIN memory : memory[a] = 0

\* C29: the load of the instruction words leaves every byte that the directives
\* of the source have written (the bytes of the memory before the load, which
\* was all zero before assemble) as it was
C29_LoadKeepsDirectiveBytes ==
    [][pc = "encoded" /\ pc' = "done"
          => \A a \in DOMAIN memory : ByteAt(memory', a) = memory[a]]_vars

---------------------------------------------------------------------------
(* the bytes of .word and .half, read as Memory.readWord reads, under      *)
(* SpecDir                                                                 *)

\* C30: after .word v has executed at address a, readWord(a) is v mod 2^32, and
\* after .half v the bytes at a, a + 1 read most significant first are
\* v mod 2^16
C30_DirectiveDataReadsBack ==
    pc = "executed" /\ thrown = "none" =>
        /\ directive.op = ".word" =>
              WordAt(memory, directive.locationCounter)
                  = ToWord(parseInt32(directive.args[1]))
        /\ directive.op = ".half" =>
              ByteAt(memory, directive.locationCounter) * 256
                      + ByteAt(memory, directive.locationCounter + 1)
                  = parseInt32(directive.args[1]) % 65536

=============================================================================
